---------------------------- MODULE Spec2Model ----------------------------
(***************************************************************************)
(* A model of the MoZuku language server's core (mozuku-lsp-py):           *)
(*   - comment_extractor.py : sanitizing of comment text and the masking   *)
(*                            of a document around its comment segments /  *)
(*                            content ranges;                              *)
(*   - server.py, grammar_checker.py : the conversions between byte        *)
(*                            offsets, character offsets and LSP           *)
(*                            (line, UTF-16 column) positions;             *)
(*   - grammar_checker.py   : the six rules of check_grammar over the      *)
(*                            tokens and sentences analyzer.py makes of    *)
(*                            the parser's words;                          *)
(*   - server.py            : the document handlers and the analysis pass  *)
(*                            that publishes diagnostics;                  *)
(*   - wikipedia.py         : the summary cache and the background threads *)
(*                            that fill it.                                *)
(*                                                                         *)
(* A Python str is a sequence of characters.  A character is a TLA+ string *)
(* naming it; what the code reads of a character is its identity, its      *)
(* UTF-8 width (str.encode) and its UTF-16 width (ord(c) > 0xFFFF).        *)
(***************************************************************************)
EXTENDS Integers, Sequences, FiniteSets, TLC

VARIABLES
    text,           \* DocumentState.text / the `text` argument
    language_id,    \* DocumentState.language_id / the `language_id` argument
    segments,       \* list[CommentSegment]
    masked,         \* the string a mask_text_except_* call returned
    comment_text,   \* the `text` argument of _sanitize_comment
    sanitized,      \* result of the first sanitize call
    resanitized,    \* result of sanitizing `sanitized` again
    position,       \* an lsp.Position [line, character]
    byte_offset,    \* a byte offset into text.encode("utf-8")
    converted,      \* result of the first conversion
    round_trip,     \* result of converting `converted` back
    pc,             \* which call has returned last
    tokens,         \* list[TokenData]: the `tokens` argument of check_grammar
    sentences,      \* list[SentenceBoundary]: its `sentences` argument
    config,         \* GrammarChecker.config, an AnalysisConfig
    diagnostics,    \* the list[Diagnostic] check_grammar returned
    initialized,    \* Analyzer._initialized
    model_installed,\* whether spacy.load finds the model (the environment)
    published,      \* the publishDiagnostics notifications sent so far
    documents,      \* MoZukuLanguageServer.documents, a DocumentState per uri
    content_ranges, \* list[ByteRange]: DocumentState.content_ranges
    _cache,         \* wikipedia._cache: the entries in insertion order
    now,            \* what time.time() returns
    fetches,        \* the background threads of prefetch_summary
    calls           \* how many cache_entry calls the main thread has made

\* what the grammar checker reads and returns
grammarVars == <<tokens, sentences, config, diagnostics>>

\* the summary cache of the hover feature and the threads that fill it
wikiVars == <<_cache, now, fetches, calls>>

\* the server's analyzer and its outgoing notifications
serverVars == <<initialized, model_installed, published, documents, content_ranges,
                wikiVars>>

vars == <<text, language_id, segments, masked, comment_text, sanitized,
          resanitized, position, byte_offset, converted, round_trip, pc,
          grammarVars, serverVars>>

-----------------------------------------------------------------------------
(* Bounds of the model *)

MaxLen == 2            \* longest document text, in characters
MaxSegments == 1       \* longest segment list handed to a mask call
MaxBody == 3           \* longest comment body between its markers
MaxDoc == 4            \* longest text of a position conversion, in characters

-----------------------------------------------------------------------------
(* Characters *)

LF == "\n"
CR == "\r"
TAB == "\t"
SP == " "
JA == "U+3042"         \* a BMP character of three UTF-8 bytes
EMOJI == "U+1F600"     \* a non-BMP character: four UTF-8 bytes, a surrogate pair
FFFD == "U+FFFD"       \* what decode(errors="replace") puts for invalid bytes

\* Japanese characters of the analysed prose, each a BMP character of three
\* UTF-8 bytes
TOUTEN == "U+3001"     \* 、 the full-width comma
GA == "U+304C"         \* が
NO == "U+306E"         \* の
MA == "U+307E"         \* ま
TA == "U+305F"         \* た
DE == "U+3067"         \* で
MO == "U+3082"         \* も
RE == "U+308C"         \* れ
RU == "U+308B"         \* る
BE == "U+3079"         \* べ
KA == "U+304B"         \* か
KU == "U+6765"         \* 来
MI == "U+898B"         \* 見
SHOKU == "U+98DF"      \* 食
IKU == "U+884C"        \* 行

Japanese == {TOUTEN, GA, NO, MA, TA, DE, MO, RE, RU, BE, KA, KU, MI, SHOKU, IKU}

\* len(c.encode("utf-8"))
Utf8Len(c) ==
    CASE c = JA -> 3
      [] c = FFFD -> 3
      [] c = EMOJI -> 4
      [] c \in Japanese -> 3
      [] OTHER -> 1

\* 2 if ord(c) > 0xFFFF else 1
Utf16Len(c) == IF c = EMOJI THEN 2 ELSE 1

Min(a, b) == IF a < b THEN a ELSE b
Max(a, b) == IF a > b THEN a ELSE b

RECURSIVE ByteLen(_)
\* len(s.encode("utf-8"))
ByteLen(s) == IF s = <<>> THEN 0 ELSE Utf8Len(Head(s)) + ByteLen(Tail(s))

\* s[:n] for n >= 0
Prefix(s, n) == SubSeq(s, 1, Min(n, Len(s)))

\* s[n:] for n >= 0
Suffix(s, n) == SubSeq(s, Min(n, Len(s)) + 1, Len(s))

Repl(n) == [k \in 1..n |-> FFFD]

RECURSIVE DecodeFrom(_, _, _, _)
\* The characters the bytes of s that fall in [lo, hi) decode to, pos being
\* the byte offset of s's first character: a whole character decodes to
\* itself, a character cut off by hi to one U+FFFD, and each continuation
\* byte left over after lo to one U+FFFD.
DecodeFrom(s, pos, lo, hi) ==
    IF s = <<>> THEN <<>>
    ELSE LET c == Head(s)
             w == Utf8Len(c)
             a == Max(pos, lo)
             b == Min(pos + w, hi)
             here == IF a >= b THEN <<>>
                     ELSE IF a = pos /\ b = pos + w THEN <<c>>
                     ELSE IF a = pos THEN <<FFFD>>
                     ELSE Repl(b - a)
         IN  here \o DecodeFrom(Tail(s), pos + w, lo, hi)

\* s.encode("utf-8")[lo:hi].decode("utf-8", errors="replace")
DecodeSlice(s, lo, hi) == DecodeFrom(s, 0, lo, hi)

\* ByteToChar, had the byte offset been used as a character offset
ByteAsChar(s, b) == Min(b, Len(s))

\* len(text_bytes[:b].decode("utf-8", errors="replace"))
ByteToChar(s, b) == Len(DecodeSlice(s, 0, b))

\* byte offset b falls on a character boundary of s (or at its end)
OnBoundary(s, b) == \E n \in 0..Len(s) : ByteLen(Prefix(s, n)) = b

-----------------------------------------------------------------------------
(* comment_extractor.py: sanitizing *)

\* the language ids of LANGUAGE_MAP
SupportedLanguages ==
    {"python", "javascript", "typescript", "typescriptreact", "javascriptreact",
     "c", "cpp", "rust", "go", "java", "html", "css", "latex"}

\* the ids _sanitize_comment treats as having // and /* */ comments
SlashLanguages == {"javascript", "typescript", "c", "cpp", "java", "go", "rust"}

is_language_supported(lang) == lang \in SupportedLanguages

RECURSIVE RunEnd(_, _, _)
\* `while i < len(result) and result[i] in chars: i += 1`, from index i
\* (1-based): the first index at or after i that holds no character of chars
RunEnd(s, i, chars) ==
    IF i <= Len(s) /\ s[i] \in chars THEN RunEnd(s, i + 1, chars) ELSE i

RECURSIVE RunStart(_, _, _)
\* `while j >= 0 and result[j] == "*": j -= 1`, from index j (1-based)
\* downwards: the last index at or before j that holds no character of chars
RunStart(s, j, chars) ==
    IF j >= 1 /\ s[j] \in chars THEN RunStart(s, j - 1, chars) ELSE j

\* result[k] = " " for every k in lo..hi
Blank(s, lo, hi) == [k \in 1..Len(s) |-> IF lo <= k /\ k <= hi THEN SP ELSE s[k]]

\* SanitizeHash, had the marker run been cut off instead of blanked
SanitizeHashStrip(s) ==
    LET i == RunEnd(s, 1, {"#"})
        j == RunEnd(s, i, {SP, TAB})
    IN  Suffix(s, j - 1)

\* SanitizeHash, had the two loops been in the other order
SanitizeHashSwapped(s) ==
    LET i == RunEnd(s, 1, {SP, TAB})
        j == RunEnd(s, i, {"#"})
    IN  Blank(s, 1, j - 1)

\* the python branch: the run of "#", then the run of blanks
SanitizeHash(s) ==
    LET i == RunEnd(s, 1, {"#"})
        j == RunEnd(s, i, {SP, TAB})
    IN  Blank(s, 1, j - 1)

\* the "//" branch: the run of "/", then the run of blanks
SanitizeLine(s) ==
    LET i == RunEnd(s, 1, {"/"})
        j == RunEnd(s, i, {SP, TAB})
    IN  Blank(s, 1, j - 1)

\* SanitizeBlockTail, had the closing marker been left alone
SanitizeBlockTailKept(r) == r

\* SanitizeBlockTail, had the backward loop blanked every "*" it passes
\* instead of stopping at the first other character
SanitizeBlockTailEveryStar(r) ==
    LET n == Len(r)
    IN  IF n >= 2 /\ r[n] = "/" /\ r[n - 1] = "*"
        THEN [k \in 1..n |-> IF k >= n - 1 \/ r[k] = "*" THEN SP ELSE r[k]]
        ELSE r

\* the trailing part of the "/*" branch, on the list as the leading part
\* left it: a closing "*/" and the run of "*" before it
SanitizeBlockTail(r) ==
    LET n == Len(r)
    IN  IF n >= 2 /\ r[n] = "/" /\ r[n - 1] = "*"
        THEN Blank(r, RunStart(r, n - 2, {"*"}) + 1, n)
        ELSE r

\* the "/*" branch: "/*", the run of "*", the run of blanks, then the tail
SanitizeBlock(s) ==
    LET i == RunEnd(s, 3, {"*"})
        j == RunEnd(s, i, {SP, TAB})
    IN  SanitizeBlockTail(Blank(s, 1, j - 1))

_sanitize_comment(s, lang) ==
    IF s = <<>> THEN s
    ELSE IF lang = "python" THEN SanitizeHash(s)
    ELSE IF lang \in SlashLanguages
         THEN IF Len(s) >= 2 /\ s[1] = "/" /\ s[2] = "/" THEN SanitizeLine(s)
              ELSE IF Len(s) >= 2 /\ s[1] = "/" /\ s[2] = "*" THEN SanitizeBlock(s)
              ELSE s
    ELSE s

_sanitize_latex_comment(s) ==
    IF s = <<>> THEN s
    ELSE LET r == Blank(s, 1, 1)
             i == RunEnd(r, 2, {"%"})
             j == RunEnd(r, i, {SP, TAB})
         IN  Blank(r, 1, j - 1)

\* the sanitizer extract_comments applies to a comment of a document in
\* language lang: _extract_latex_comments for latex, visit_node otherwise
SanitizeFor(lang, s) ==
    IF lang = "latex" THEN _sanitize_latex_comment(s) ELSE _sanitize_comment(s, lang)

-----------------------------------------------------------------------------
(* comment_extractor.py: the LaTeX comment extractor *)

RECURSIVE BackslashesBefore(_, _)
\* `while pos > count and text[pos - count - 1] == "\\": count += 1`: the
\* number of backslashes that end right before index i (1-based)
BackslashesBefore(t, i) ==
    IF i > 1 /\ t[i - 1] = "\\" THEN 1 + BackslashesBefore(t, i - 1) ELSE 0

_is_escaped(t, i) == BackslashesBefore(t, i) % 2 = 1

RECURSIVE FindFrom(_, _, _)
\* text.find(c, i), 1-based: the first index at or after i holding c, or
\* Len(t) + 1 where find returns -1 and the caller takes len(text)
FindFrom(t, c, i) ==
    IF i > Len(t) THEN Len(t) + 1
    ELSE IF t[i] = c THEN i ELSE FindFrom(t, c, i + 1)

RECURSIVE CommentStart(_, _, _)
\* the `while current < line_end` scan: the index of the first unescaped "%"
\* in [current, line_end), or line_end when the line has none
CommentStart(t, current, line_end) ==
    IF current >= line_end THEN line_end
    ELSE IF t[current] = "%" /\ ~_is_escaped(t, current) THEN current
    ELSE CommentStart(t, current + 1, line_end)

RECURSIVE LatexCommentsFrom(_, _)
\* the `while pos < len(text)` loop, from the line that starts at index pos
LatexCommentsFrom(t, pos) ==
    IF pos > Len(t) THEN <<>>
    ELSE LET line_end == FindFrom(t, LF, pos)
             current == CommentStart(t, pos, line_end)
             found == IF current < line_end
                      THEN <<[start_byte |-> ByteLen(Prefix(t, current - 1)),
                              end_byte |-> ByteLen(Prefix(t, line_end - 1)),
                              sanitized |-> _sanitize_latex_comment(
                                  SubSeq(t, current, line_end - 1))]>>
                      ELSE <<>>
         IN  found \o LatexCommentsFrom(t, line_end + 1)

_extract_latex_comments(t) == LatexCommentsFrom(t, 1)

\* str.isspace, str.isalpha, str.isalnum and ord(c) < 128 on the characters
\* of the model
IsSpace(c) == c \in {SP, TAB, LF, CR}
IsAlpha(c) == c \in {"a", JA} \cup (Japanese \ {TOUTEN})
IsAlnum(c) == IsAlpha(c)
IsAscii(c) == c \notin ({JA, EMOJI, FFFD} \cup Japanese)

\* no index: where the find functions return -1
NotFound == 0

RECURSIVE _find_closing_dollar(_, _)
\* the first unescaped "$" at or after index pos
_find_closing_dollar(t, pos) ==
    IF pos > Len(t) THEN NotFound
    ELSE IF t[pos] = "$" /\ ~_is_escaped(t, pos) THEN pos
    ELSE _find_closing_dollar(t, pos + 1)

RECURSIVE _find_closing_double_dollar(_, _)
\* the first unescaped "$$" at or after index pos
_find_closing_double_dollar(t, pos) ==
    IF pos > Len(t) - 1 THEN NotFound
    ELSE IF t[pos] = "$" /\ t[pos + 1] = "$" /\ ~_is_escaped(t, pos) THEN pos
    ELSE _find_closing_double_dollar(t, pos + 1)

RECURSIVE CommandNameEnd(_, _)
\* `while i < len(text) and (text[i].isalpha() or text[i] == "@")`
CommandNameEnd(t, i) ==
    IF i <= Len(t) /\ (IsAlpha(t[i]) \/ t[i] = "@") THEN CommandNameEnd(t, i + 1) ELSE i

\* the index after a command that starts with the backslash at index i
CommandEnd(t, i) ==
    LET name_end == CommandNameEnd(t, i + 1)
    IN  IF name_end <= Len(t) /\ t[name_end] = "*" THEN name_end + 1 ELSE name_end

\* a run of content stops before the character at index i
EndsContent(t, i) ==
    \/ t[i] \in {"\\", "$", "{", "}"}
    \/ t[i] = "%" /\ ~_is_escaped(t, i)
    \/ IsSpace(t[i])
    \/ IsAscii(t[i]) /\ ~IsAlnum(t[i])

RECURSIVE ContentEnd(_, _)
\* the inner `while i < len(text)` loop: where the content from i stops
ContentEnd(t, i) ==
    IF i > Len(t) \/ EndsContent(t, i) THEN i ELSE ContentEnd(t, i + 1)

RECURSIVE ContentRangesFrom(_, _)
\* the outer `while i < len(text)` loop of extract_latex_content_ranges,
\* from index i
ContentRangesFrom(t, i) ==
    IF i > Len(t) THEN <<>>
    ELSE IF t[i] = "%" /\ ~_is_escaped(t, i)
    THEN LET line_end == FindFrom(t, LF, i)
         IN  IF line_end > Len(t) THEN <<>> ELSE ContentRangesFrom(t, line_end + 1)
    ELSE IF t[i] = "$" /\ ~_is_escaped(t, i)
    THEN IF i + 1 <= Len(t) /\ t[i + 1] = "$"
         THEN LET closing == _find_closing_double_dollar(t, i + 2)
              IN  IF closing = NotFound THEN <<>> ELSE ContentRangesFrom(t, closing + 2)
         ELSE LET closing == _find_closing_dollar(t, i + 1)
              IN  IF closing = NotFound THEN <<>> ELSE ContentRangesFrom(t, closing + 1)
    ELSE IF t[i] = "\\" THEN ContentRangesFrom(t, CommandEnd(t, i))
    ELSE IF t[i] \in {"{", "}"} \/ IsSpace(t[i]) THEN ContentRangesFrom(t, i + 1)
    ELSE LET end == ContentEnd(t, i)
         IN  IF end > i
             THEN <<[start_byte |-> ByteLen(Prefix(t, i - 1)),
                     end_byte |-> ByteLen(Prefix(t, end - 1))]>>
                  \o ContentRangesFrom(t, end)
             ELSE ContentRangesFrom(t, i + 1)

extract_latex_content_ranges(t) == ContentRangesFrom(t, 1)

-----------------------------------------------------------------------------
(* comment_extractor.py: masking *)

\* MaskChar, had the test been `c != "\r"`: line feeds are blanked too
MaskCharNoLF(c) == IF c = CR THEN c ELSE SP

\* " " if c not in "\n\r" else c
MaskChar(c) == IF c \in {LF, CR} THEN c ELSE SP

\* "".join(" " if c not in "\n\r" else c for c in text)
MaskAll(t) == [k \in 1..Len(t) |-> MaskChar(t[k])]

\* CopyAt, had the copy appended what runs past the end of masked instead of
\* dropping it
CopyAtGrowing(m, start_char, san) ==
    [k \in 1..Max(Len(m), start_char + Len(san)) |->
        IF start_char < k /\ k <= start_char + Len(san)
        THEN san[k - start_char] ELSE IF k <= Len(m) THEN m[k] ELSE SP]

\* for j, c in enumerate(sanitized):
\*     if start_char + j < len(masked): masked[start_char + j] = c
CopyAt(m, start_char, san) ==
    [k \in 1..Len(m) |->
        IF start_char < k /\ k <= start_char + Len(san)
        THEN san[k - start_char] ELSE m[k]]

\* one pass of `for segment in segments` in mask_text_except_comments
RestoreSegment(m, t, seg) == CopyAt(m, ByteToChar(t, seg.start_byte), seg.sanitized)

RECURSIVE RestoreSegments(_, _, _)
RestoreSegments(m, t, segs) ==
    IF segs = <<>> THEN m
    ELSE RestoreSegments(RestoreSegment(m, t, Head(segs)), t, Tail(segs))

mask_text_except_comments(lang, t, segs) ==
    IF segs = <<>> THEN MaskAll(t) ELSE RestoreSegments(MaskAll(t), t, segs)

\* one pass of `for byte_range in content_ranges` in mask_text_except_content
RestoreRange(m, t, rng) ==
    LET start_char == ByteToChar(t, rng.start_byte)
        end_char == ByteToChar(t, rng.end_byte)
    IN  [k \in 1..Len(m) |->
            IF start_char < k /\ k <= Min(end_char, Len(m)) THEN t[k] ELSE m[k]]

RECURSIVE RestoreRanges(_, _, _)
RestoreRanges(m, t, rngs) ==
    IF rngs = <<>> THEN m
    ELSE RestoreRanges(RestoreRange(m, t, Head(rngs)), t, Tail(rngs))

mask_text_except_content(lang, t, rngs) ==
    IF rngs = <<>> THEN MaskAll(t) ELSE RestoreRanges(MaskAll(t), t, rngs)

\* ByteRange(start_byte=seg.start_byte, end_byte=seg.end_byte)
AsByteRange(seg) == [start_byte |-> seg.start_byte, end_byte |-> seg.end_byte]

AsByteRanges(segs) == [k \in 1..Len(segs) |-> AsByteRange(segs[k])]

-----------------------------------------------------------------------------
(* Masking a document: the inputs and the calls *)

\* every string of at most n characters of alphabet
Strings(alphabet, n) == UNION {[1..k -> alphabet] : k \in 0..n}

\* the language ids masked documents are drawn from; the last is not an id
\* of LANGUAGE_MAP
MaskLanguages == {"python", "latex", "markdown"}

\* the character that opens a comment in language lang
Marker(lang) == IF lang = "latex" THEN "%" ELSE "#"

\* the characters a document text in language lang is drawn from
TextAlphabet(lang) ==
    {Marker(lang), LF, EMOJI} \cup (IF lang = "latex" THEN {"\\"} ELSE {"a", CR})

\* a sanitized string that is not the document's: longer than any text
StaleSanitized == [k \in 1..(MaxLen + 1) |-> "a"]

NoMask == <<"none">>

MaskIdle ==
    /\ segments = <<>>
    /\ masked = NoMask

SanitizeIdle ==
    /\ comment_text = <<>>
    /\ sanitized = <<>>
    /\ resanitized = <<>>

OffsetIdle ==
    /\ position = [line |-> 0, character |-> 0]
    /\ byte_offset = 0
    /\ converted = 0
    /\ round_trip = 0

GrammarIdle ==
    /\ tokens = <<>>
    /\ sentences = <<>>
    /\ config = <<>>
    /\ diagnostics = <<>>

ServerIdle ==
    /\ initialized = FALSE
    /\ model_installed = FALSE
    /\ published = <<>>
    /\ documents = {}
    /\ content_ranges = <<>>
    /\ _cache = <<>>
    /\ now = 0
    /\ fetches = <<>>
    /\ calls = 0

InitMask ==
    /\ language_id \in MaskLanguages
    /\ text \in Strings(TextAlphabet(language_id), MaxLen)
    /\ MaskIdle
    /\ SanitizeIdle
    /\ OffsetIdle
    /\ GrammarIdle
    /\ ServerIdle
    /\ pc = "input"

\* visit_node of extract_comments (and the body of _extract_latex_comments)
\* on a comment found at bytes [s, e): the segment appended
ExtractedSegment(t, lang, s, e) ==
    [start_byte |-> s, end_byte |-> e,
     sanitized |-> SanitizeFor(lang, DecodeSlice(t, s, e))]

\* the start bytes a further segment may have: visit_node walks the tree in
\* document order, so segments come by nondecreasing start byte
NextStarts ==
    (IF segments = <<>> THEN 0 ELSE segments[Len(segments)].start_byte)
        .. (ByteLen(text) + 1)

\* extract_comments, had a language outside LANGUAGE_MAP been one comment
WholeTextComment(lang, t) ==
    IF t = <<>> THEN <<>> ELSE <<ExtractedSegment(t, lang, 0, ByteLen(t))>>

\* extract_comments on a language id that LANGUAGE_MAP.get gives None for
\* and that is not latex
NoComments(lang, t) == <<>>

\* The syntax-tree parser reports a comment node at bytes [s, e) of the
\* document (extract_comments, a language of LANGUAGE_MAP but latex).
ExtractComment ==
    /\ pc = "input"
    /\ is_language_supported(language_id)
    /\ language_id # "latex"
    /\ Len(segments) < MaxSegments
    /\ \E s \in NextStarts : \E e \in s..(ByteLen(text) + 1) :
          segments' = Append(segments, ExtractedSegment(text, language_id, s, e))
    /\ UNCHANGED <<text, language_id, masked, comment_text, sanitized, resanitized,
                   position, byte_offset, converted, round_trip, pc>>
    /\ UNCHANGED <<grammarVars, serverVars>>

\* extract_comments on a latex document.
ExtractLatexComments ==
    /\ pc = "input"
    /\ language_id = "latex"
    /\ segments = <<>>
    /\ segments' = _extract_latex_comments(text)
    /\ segments' # <<>>
    /\ UNCHANGED <<text, language_id, masked, comment_text, sanitized, resanitized,
                   position, byte_offset, converted, round_trip, pc>>
    /\ UNCHANGED <<grammarVars, serverVars>>

\* extract_comments on a document whose language id is not in LANGUAGE_MAP.
ExtractUnsupported ==
    /\ pc = "input"
    /\ ~is_language_supported(language_id)
    /\ segments' = NoComments(language_id, text)
    /\ pc' = "extract_comments"
    /\ UNCHANGED <<text, language_id, masked, comment_text, sanitized, resanitized,
                   position, byte_offset, converted, round_trip>>
    /\ UNCHANGED <<grammarVars, serverVars>>

\* A caller hands a segment that was not extracted from this text.
StaleSegment ==
    /\ pc = "input"
    /\ Len(segments) < MaxSegments
    /\ \E s \in NextStarts :
          segments' = Append(segments,
              [start_byte |-> s, end_byte |-> s + 1, sanitized |-> StaleSanitized])
    /\ UNCHANGED <<text, language_id, masked, comment_text, sanitized, resanitized,
                   position, byte_offset, converted, round_trip, pc>>
    /\ UNCHANGED <<grammarVars, serverVars>>

MaskExceptComments ==
    /\ pc \in {"input", "extract_comments"}
    /\ masked' = mask_text_except_comments(language_id, text, segments)
    /\ pc' = "mask_text_except_comments"
    /\ UNCHANGED <<text, language_id, segments, comment_text, sanitized, resanitized,
                   position, byte_offset, converted, round_trip>>
    /\ UNCHANGED <<grammarVars, serverVars>>

MaskExceptContent ==
    /\ pc = "input"
    /\ masked' = mask_text_except_content(language_id, text, AsByteRanges(segments))
    /\ pc' = "mask_text_except_content"
    /\ UNCHANGED <<text, language_id, segments, comment_text, sanitized, resanitized,
                   position, byte_offset, converted, round_trip>>
    /\ UNCHANGED <<grammarVars, serverVars>>

NextMask ==
    \/ ExtractComment
    \/ ExtractLatexComments
    \/ ExtractUnsupported
    \/ StaleSegment
    \/ MaskExceptComments
    \/ MaskExceptContent

SpecMask == InitMask /\ [][NextMask]_vars

Masked == pc \in {"mask_text_except_comments", "mask_text_except_content"}

\* the byte offset of the character at index k (1-based) of t
ByteOffsetOf(t, k) == ByteLen(Prefix(t, k - 1))

\* a segment whose sanitized string is what visit_node's sanitizer returns
\* for the slice it covers, starting on a character boundary
Aligned(seg) ==
    /\ OnBoundary(text, seg.start_byte)
    /\ seg.sanitized =
          SanitizeFor(language_id, DecodeSlice(text, seg.start_byte, seg.end_byte))

\* a byte range with both ends on character boundaries of the text
OnBoundaries(seg) ==
    /\ OnBoundary(text, seg.start_byte)
    /\ OnBoundary(text, seg.end_byte)
    /\ seg.start_byte <= seg.end_byte

\* the segment list is one extract_comments returns for the text: the LaTeX
\* extractor's own list, or comment nodes of the syntax tree
FromExtraction ==
    IF language_id = "latex"
    THEN segments = _extract_latex_comments(text)
    ELSE IF ~is_language_supported(language_id)
    THEN segments = <<>>
    ELSE \A k \in 1..Len(segments) : Aligned(segments[k])

AllOnBoundaries == \A k \in 1..Len(segments) : OnBoundaries(segments[k])

\* byte b of the text lies in some segment's [start_byte, end_byte)
Covered(b) ==
    \E k \in 1..Len(segments) :
        segments[k].start_byte <= b /\ b < segments[k].end_byte

\* C1: whatever the segments (none, past the end of the text, or with a
\* sanitized string that runs past the end), both mask functions return a
\* string of exactly as many characters as the text.
C1_MaskKeepsLength == Masked => Len(masked) = Len(text)

\* a mask_text_except_comments call whose segment ends past the text's bytes
\* and whose sanitized string runs past its last character
C1_Witness ==
    /\ pc = "mask_text_except_comments"
    /\ text # <<>>
    /\ masked # MaskAll(text)
    /\ \E k \in 1..Len(segments) :
          /\ ByteToChar(text, segments[k].start_byte) + Len(segments[k].sanitized)
                > Len(text)
          /\ segments[k].end_byte > ByteLen(text)

\* C2 (as claimed): masking shifts no byte offset: the masked text has the
\* UTF-8 byte length of the text, and every character kept from a segment
\* has the byte offset it has in the text.
C2_ByteOffsetsKept ==
    (Masked /\ FromExtraction /\ AllOnBoundaries) =>
        /\ ByteLen(masked) = ByteLen(text)
        /\ \A k \in 1..Len(text) :
              Covered(ByteOffsetOf(text, k)) =>
                  ByteOffsetOf(masked, k) = ByteOffsetOf(text, k)

C6_ContentMaskExact ==
    (pc = "mask_text_except_content" /\ AllOnBoundaries) =>
        /\ Len(masked) = Len(text)
        /\ \A k \in 1..Len(text) :
              masked[k] =
                  IF Covered(ByteOffsetOf(text, k)) \/ text[k] \in {LF, CR}
                  THEN text[k] ELSE SP

\* a four-byte character outside the ranges blanked, a later character
\* inside a range kept
C6_Witness ==
    /\ pc = "mask_text_except_content"
    /\ AllOnBoundaries
    /\ \E j, k \in 1..Len(text) :
          /\ j < k
          /\ text[j] = EMOJI
          /\ ~Covered(ByteOffsetOf(text, j))
          /\ masked[j] = SP
          /\ text[k] \notin {SP, LF}
          /\ Covered(ByteOffsetOf(text, k))
          /\ masked[k] = text[k]

-----------------------------------------------------------------------------
(* Sanitizing a comment: the inputs and the calls *)

\* the language ids comments are drawn from: one per branch of
\* _sanitize_comment, one it has no branch for, and latex
SanitizeLanguages == {"python", "c", "typescriptreact", "latex"}

\* how an extracted comment may open and close
CommentHeads == {<<>>, <<"#">>, <<"/", "/">>, <<"/", "*">>, <<"%">>}
CommentTails == {<<>>, <<"*", "/">>}

\* the characters a comment body is drawn from
BodyAlphabet == {"a", "#", "/", "*", "%", SP, TAB, LF}

InitSanitize ==
    /\ language_id \in SanitizeLanguages
    /\ \E head \in CommentHeads : \E tail \in CommentTails :
       \E body \in Strings(BodyAlphabet, MaxBody) :
          comment_text = head \o body \o tail
    /\ text = <<>>
    /\ MaskIdle
    /\ sanitized = <<>>
    /\ resanitized = <<>>
    /\ OffsetIdle
    /\ GrammarIdle
    /\ ServerIdle
    /\ pc = "comment"

\* visit_node: sanitized = _sanitize_comment(comment_text, language_id)
SanitizeComment ==
    /\ pc = "comment"
    /\ language_id # "latex"
    /\ sanitized' = _sanitize_comment(comment_text, language_id)
    /\ pc' = "sanitized"
    /\ UNCHANGED <<text, language_id, segments, masked, comment_text, resanitized,
                   position, byte_offset, converted, round_trip>>
    /\ UNCHANGED <<grammarVars, serverVars>>

\* _extract_latex_comments: sanitized = _sanitize_latex_comment(comment_text)
SanitizeLatexComment ==
    /\ pc = "comment"
    /\ language_id = "latex"
    /\ sanitized' = _sanitize_latex_comment(comment_text)
    /\ pc' = "sanitized"
    /\ UNCHANGED <<text, language_id, segments, masked, comment_text, resanitized,
                   position, byte_offset, converted, round_trip>>
    /\ UNCHANGED <<grammarVars, serverVars>>

\* the same sanitizer applied to its own result
SanitizeAgain ==
    /\ pc = "sanitized"
    /\ resanitized' = SanitizeFor(language_id, sanitized)
    /\ pc' = "resanitized"
    /\ UNCHANGED <<text, language_id, segments, masked, comment_text, sanitized,
                   position, byte_offset, converted, round_trip>>
    /\ UNCHANGED <<grammarVars, serverVars>>

NextSanitize ==
    \/ SanitizeComment
    \/ SanitizeLatexComment
    \/ SanitizeAgain

SpecSanitize == InitSanitize /\ [][NextSanitize]_vars

Sanitized == pc \in {"sanitized", "resanitized"}

StartsWith(s, head) == Len(s) >= Len(head) /\ SubSeq(s, 1, Len(head)) = head

EndsWith(s, tail) ==
    Len(s) >= Len(tail) /\ SubSeq(s, Len(s) - Len(tail) + 1, Len(s)) = tail

\* comment_text opens with the comment marker of language_id
StartsWithMarker ==
    CASE language_id = "python" -> StartsWith(comment_text, <<"#">>)
      [] language_id \in SlashLanguages ->
            StartsWith(comment_text, <<"/", "/">>) \/ StartsWith(comment_text, <<"/", "*">>)
      [] language_id = "latex" -> StartsWith(comment_text, <<"%">>)
      [] OTHER -> TRUE

\* comment_text is a block comment of a language with /* */ comments: it
\* opens with the one marker and closes at the first closing marker after it
IsBlockComment ==
    /\ language_id \in SlashLanguages
    /\ Len(comment_text) >= 4
    /\ StartsWith(comment_text, <<"/", "*">>)
    /\ EndsWith(comment_text, <<"*", "/">>)
    /\ \A k \in 3..(Len(comment_text) - 2) :
          ~(comment_text[k] = "*" /\ comment_text[k + 1] = "/")

\* the sanitized string is the comment with some characters made spaces
OnlyBlanked(out, in) ==
    /\ Len(out) = Len(in)
    /\ \A k \in 1..Len(in) : out[k] = in[k] \/ out[k] = SP

\* C7: both sanitizers return a string of the length of their input, in
\* which every character that was not replaced by a space is at its index.
C7_SanitizeKeepsLength ==
    /\ Sanitized => OnlyBlanked(sanitized, comment_text)
    /\ pc = "resanitized" => OnlyBlanked(resanitized, sanitized)

\* a sanitized comment with a marker blanked and a character kept
C7_Witness ==
    /\ pc = "sanitized"
    /\ \E j, k \in 1..Len(comment_text) :
          /\ sanitized[j] = SP /\ comment_text[j] \notin {SP}
          /\ sanitized[k] # SP /\ sanitized[k] = comment_text[k]

\* C8: on a comment that opens with its language's marker, sanitizing the
\* sanitized string again changes nothing.
C8_SanitizeIdempotent ==
    (pc = "resanitized" /\ StartsWithMarker) => resanitized = sanitized

\* a comment the first pass changed, still holding marker characters, that
\* the second pass left alone
C8_Witness ==
    /\ pc = "resanitized"
    /\ StartsWithMarker
    /\ language_id \in {"python", "c", "latex"}
    /\ sanitized # comment_text
    /\ \E k \in 1..Len(sanitized) : sanitized[k] \in {"#", "/", "*", "%"}
    /\ resanitized = sanitized

ContinuationStar(k) ==
    /\ comment_text[k] = "*"
    /\ \E p \in 3..(k - 1) :
          /\ comment_text[p] = LF
          /\ \A q \in (p + 1)..(k - 1) : comment_text[q] \in {SP, TAB}

\* the "*" at index k is followed by comment text before the closing marker
BeforeText(k) ==
    \E m \in (k + 1)..(Len(comment_text) - 2) : comment_text[m] # "*"

\* C10 (as claimed): in a block comment every "*" that begins a
\* continuation line is replaced by a space.
C10_ContinuationStarsBlanked ==
    (pc = "sanitized" /\ IsBlockComment) =>
        \A k \in 4..(Len(comment_text) - 2) :
            ContinuationStar(k) => sanitized[k] = SP

\* C10 (amended): a "*" that begins a continuation line and has comment text
\* after it is left as it is; only the opening and the closing runs go.
C10_ContinuationStarsKept ==
    (pc = "sanitized" /\ IsBlockComment) =>
        \A k \in 4..(Len(comment_text) - 2) :
            (ContinuationStar(k) /\ BeforeText(k)) => sanitized[k] = "*"

\* a block comment whose opening marker was blanked and whose continuation
\* "*" was not
C10_Witness ==
    /\ pc = "sanitized"
    /\ IsBlockComment
    /\ sanitized[1] = SP /\ sanitized[2] = SP
    /\ \E k \in 4..(Len(comment_text) - 2) :
          ContinuationStar(k) /\ BeforeText(k) /\ sanitized[k] = "*"

-----------------------------------------------------------------------------
(* server.py, grammar_checker.py: offsets and positions *)

RECURSIVE Utf16Length(_)
\* _utf8_to_utf16_length: the UTF-16 code units of a string
Utf16Length(s) == IF s = <<>> THEN 0 ELSE Utf16Len(Head(s)) + Utf16Length(Tail(s))

RECURSIVE Utf16Walk(_, _, _, _)
\* the `for c in line` loop from character k (1-based), utf16_count units and
\* char_offset characters in: stops once utf16_count >= target
Utf16Walk(line, k, utf16_count, target) ==
    IF k > Len(line) \/ utf16_count >= target THEN k - 1
    ELSE Utf16Walk(line, k + 1, utf16_count + Utf16Len(line[k]), target)

\* _utf16_to_char_offset, had every character counted as one code unit
Utf16AsChar(line, utf16_offset) == Min(Max(utf16_offset, 0), Len(line))

\* _utf16_to_char_offset (and the same loop inline in _position_to_offset)
_utf16_to_char_offset(line, utf16_offset) == Utf16Walk(line, 1, 0, utf16_offset)

RECURSIVE Split(_)
\* text.split("\n")
Split(t) ==
    LET e == FindFrom(t, LF, 1)
    IN  IF e > Len(t) THEN <<t>>
        ELSE <<SubSeq(t, 1, e - 1)>> \o Split(SubSeq(t, e + 1, Len(t)))

RECURSIVE SumLines(_, _)
\* `for i in range(n): if i < len(lines): offset += len(lines[i]) + 1`
SumLines(lines, n) ==
    IF n <= 0 THEN 0
    ELSE SumLines(lines, n - 1) + (IF n <= Len(lines) THEN Len(lines[n]) + 1 ELSE 0)

\* server._position_to_offset: a character offset
_position_to_offset(t, p) ==
    LET lines == Split(t)
    IN  SumLines(lines, p.line)
        + (IF p.line < Len(lines)
           THEN _utf16_to_char_offset(lines[p.line + 1], p.character)
           ELSE 0)

\* len(text[:offset].encode("utf-8"))
CharToByte(t, offset) == ByteLen(Prefix(t, offset))

\* server._byte_offset_to_position
ServerByteOffsetToPosition(t, b) ==
    LET prefix == DecodeSlice(t, 0, Min(b, ByteLen(t)))
        lines == Split(prefix)
    IN  [line |-> Len(lines) - 1, character |-> Utf16Length(lines[Len(lines)])]

RECURSIVE LineStartsFrom(_, _)
LineStartsFrom(t, i) ==
    IF i > Len(t) THEN <<>>
    ELSE (IF t[i] = LF THEN <<i>> ELSE <<>>) \o LineStartsFrom(t, i + 1)

\* _compute_line_starts: the 0-based character offset of each line's start
_compute_line_starts(t) == <<0>> \o LineStartsFrom(t, 1)

RECURSIVE LineOfFrom(_, _, _, _)
\* `for i, start in enumerate(line_starts): if char_offset < start: break;
\* line = i`, at index i (0-based) with `line` so far
LineOfFrom(line_starts, char_offset, i, line) ==
    IF i >= Len(line_starts) \/ char_offset < line_starts[i + 1] THEN line
    ELSE LineOfFrom(line_starts, char_offset, i + 1, i)

\* LineOf, had the test been `char_offset <= start`
LineOfOffByOne(line_starts, char_offset) ==
    IF char_offset = 0 THEN 0
    ELSE Cardinality({i \in 1..Len(line_starts) : line_starts[i] < char_offset}) - 1

LineOf(line_starts, char_offset) == LineOfFrom(line_starts, char_offset, 0, 0)

\* grammar_checker._byte_offset_to_position
_byte_offset_to_position(t, line_starts, b) ==
    LET char_offset == ByteToChar(t, Min(b, ByteLen(t)))
        line == LineOf(line_starts, char_offset)
        line_start == line_starts[line + 1]
        line_text == SubSeq(t, line_start + 1, char_offset)
    IN  [line |-> line, character |-> Utf16Length(line_text)]

\* GrammarChecker._to_byte_offset, of a token at (line, start_char)
_to_byte_offset(p, t, line_starts) ==
    IF p.line >= Len(line_starts) THEN ByteLen(t)
    ELSE LET line_start == line_starts[p.line + 1]
             rest == Suffix(t, line_start)
             newline_pos == FindFrom(rest, LF, 1)
             line_text == SubSeq(rest, 1, newline_pos - 1)
             char_offset == _utf16_to_char_offset(line_text, p.character)
         IN  ByteLen(Prefix(t, line_start + char_offset))

-----------------------------------------------------------------------------
(* Converting positions and offsets: the inputs and the calls *)

\* the characters a converted text is drawn from
DocAlphabet == {"a", JA, EMOJI, LF}

\* the positions a client may send: lines and columns within and beyond
\* the text
Positions == [line : 0..(MaxDoc + 1), character : 0..(2 * MaxDoc + 1)]

InitOffset ==
    /\ text \in Strings(DocAlphabet, MaxDoc)
    /\ language_id = "japanese"
    /\ MaskIdle
    /\ SanitizeIdle
    /\ OffsetIdle
    /\ GrammarIdle
    /\ ServerIdle
    /\ pc = "text"

\* position -> character offset -> byte offset -> position, all in server.py
PositionRoundTrip ==
    /\ pc = "text"
    /\ \E p \in Positions :
          /\ position' = p
          /\ converted' = _position_to_offset(text, p)
          /\ byte_offset' = CharToByte(text, converted')
          /\ round_trip' = ServerByteOffsetToPosition(text, byte_offset')
    /\ pc' = "position_round_trip"
    /\ UNCHANGED <<text, language_id, segments, masked, comment_text, sanitized,
                   resanitized>>
    /\ UNCHANGED <<grammarVars, serverVars>>

\* byte offset -> position -> byte offset, in grammar_checker.py
CheckerByteRoundTrip ==
    /\ pc = "text"
    /\ \E b \in 0..(ByteLen(text) + 1) :
          /\ byte_offset' = b
          /\ converted' = _byte_offset_to_position(text, _compute_line_starts(text), b)
          /\ round_trip' = _to_byte_offset(converted', text, _compute_line_starts(text))
    /\ pc' = "checker_byte_round_trip"
    /\ UNCHANGED <<text, language_id, segments, masked, comment_text, sanitized,
                   resanitized, position>>
    /\ UNCHANGED <<grammarVars, serverVars>>

\* byte offset -> position -> character offset -> byte offset, in server.py
ServerByteRoundTrip ==
    /\ pc = "text"
    /\ \E b \in 0..(ByteLen(text) + 1) :
          /\ byte_offset' = b
          /\ converted' = ServerByteOffsetToPosition(text, b)
          /\ round_trip' = CharToByte(text, _position_to_offset(text, converted'))
    /\ pc' = "server_byte_round_trip"
    /\ UNCHANGED <<text, language_id, segments, masked, comment_text, sanitized,
                   resanitized, position>>
    /\ UNCHANGED <<grammarVars, serverVars>>

NextOffset ==
    \/ PositionRoundTrip
    \/ CheckerByteRoundTrip
    \/ ServerByteRoundTrip

SpecOffset == InitOffset /\ [][NextOffset]_vars

\* p names an existing line of t and a column of it that is no more than the
\* line's UTF-16 length and not inside a surrogate pair
ValidPosition(t, p) ==
    /\ p.line < Len(Split(t))
    /\ \E n \in 0..Len(Split(t)[p.line + 1]) :
          Utf16Length(Prefix(Split(t)[p.line + 1], n)) = p.character

\* C4: a valid Position, converted to an offset and back, is itself.
C4_PositionRoundTrip ==
    (pc = "position_round_trip" /\ ValidPosition(text, position)) =>
        round_trip = position

\* a valid Position on a later line, after a multi-byte character
C4_Witness ==
    /\ pc = "position_round_trip"
    /\ ValidPosition(text, position)
    /\ position.line >= 1
    /\ position.character >= 2
    /\ byte_offset > converted + 1
    /\ round_trip = position

\* C5: a byte offset within the text and on a character boundary, converted
\* to a Position and back (by either pair of functions), is itself.
C5_ByteOffsetRoundTrip ==
    (/\ pc \in {"checker_byte_round_trip", "server_byte_round_trip"}
     /\ byte_offset <= ByteLen(text)
     /\ OnBoundary(text, byte_offset)) =>
        round_trip = byte_offset

\* grammar_checker's pair on an offset on a later line, after a surrogate pair
C5_Witness ==
    /\ pc = "checker_byte_round_trip"
    /\ OnBoundary(text, byte_offset)
    /\ converted.line >= 1
    /\ converted.character >= 2
    /\ byte_offset > converted.character + 2
    /\ round_trip = byte_offset

\* server's pair on an offset on a later line, after a surrogate pair
C5_WitnessServer ==
    /\ pc = "server_byte_round_trip"
    /\ OnBoundary(text, byte_offset)
    /\ converted.line >= 1
    /\ converted.character >= 2
    /\ byte_offset > converted.character + 2
    /\ round_trip = byte_offset

-----------------------------------------------------------------------------
(* grammar_checker.py: feature strings *)

(* A feature string is a str like any other: a sequence of characters.    *)
(* The part-of-speech words the rules compare against are each named by   *)
(* one unit; a base form is spelt in the characters of the text.           *)
COMMA == ","
STAR == "*"
JOSHI == "joshi"                     \* 助詞
SETSUZOKUJOSHI == "setsuzoku-joshi"  \* 接続助詞
KAKUJOSHI == "kaku-joshi"            \* 格助詞
SETSUZOKUSHI == "setsuzokushi"       \* 接続詞
DOUSHI == "doushi"                   \* 動詞
MEISHI == "meishi"                   \* 名詞
KIGOU == "hojo-kigou"                \* 補助記号
JIRITSU == "jiritsu"                 \* 自立
SETSUBI == "setsubi"                 \* 接尾
ICHIDAN == "ichidan"                 \* 一段
GODAN == "godan"                     \* 五段
MIZENKEI == "mizenkei"               \* 未然形
KIHONKEI == "kihonkei"               \* 基本形

\* s.split(sep) for a one-character sep: the pieces between the separators,
\* never an empty list
SplitOn(s, sep) ==
    LET seps == SelectSeq([k \in 1..Len(s) |-> k], LAMBDA k : s[k] = sep)
        cuts == <<0>> \o seps \o <<Len(s) + 1>>
    IN  [n \in 1..(Len(seps) + 1) |-> SubSeq(s, cuts[n] + 1, cuts[n + 1] - 1)]

\* parts = feature.split(","), the first statement of each test below; the
\* tests are written over parts, which Context computes once for each token
FeatureParts(feature) == SplitOn(feature, COMMA)

\* _is_adversative_ga, had a missing base form counted as が
IsGaLenient(parts) ==
    IF Len(parts) < 2 THEN FALSE
    ELSE /\ parts[1] = <<JOSHI>>
         /\ parts[2] = <<SETSUZOKUJOSHI>>
         /\ (Len(parts) < 7 \/ parts[7] = <<GA>>)

\* _is_adversative_ga, had it not looked at sub1
IsAnyGa(parts) ==
    IF Len(parts) < 7 THEN FALSE
    ELSE parts[1] = <<JOSHI>> /\ parts[7] = <<GA>>

_is_adversative_ga(parts) ==
    IF Len(parts) < 7 THEN FALSE
    ELSE /\ parts[1] = <<JOSHI>>
         /\ parts[2] = <<SETSUZOKUJOSHI>>
         /\ parts[7] = <<GA>>

_is_particle(parts) ==
    IF parts = <<>> THEN FALSE ELSE parts[1] = <<JOSHI>>

\* the key "品詞,細分類1" of a particle, or the lone first field
_particle_key(parts) ==
    IF Len(parts) < 2
    THEN (IF parts # <<>> THEN parts[1] ELSE <<>>)
    ELSE parts[1] \o <<COMMA>> \o parts[2]

_is_conjunction(parts) ==
    IF parts = <<>> THEN FALSE ELSE parts[1] = <<SETSUZOKUSHI>>

\* _is_target_verb, had it not asked for the 未然形
IsIchidanVerb(parts) ==
    IF Len(parts) < 6 THEN FALSE
    ELSE /\ parts[1] = <<DOUSHI>>
         /\ parts[2] = <<JIRITSU>>
         /\ parts[5] = <<ICHIDAN>>

_is_target_verb(parts) ==
    IF Len(parts) < 6 THEN FALSE
    ELSE /\ parts[1] = <<DOUSHI>>
         /\ parts[2] = <<JIRITSU>>
         /\ parts[5] = <<ICHIDAN>>
         /\ parts[6] = <<MIZENKEI>>

_is_ra_word(parts) ==
    IF Len(parts) < 7 THEN FALSE
    ELSE /\ parts[1] = <<DOUSHI>>
         /\ parts[2] = <<SETSUBI>>
         /\ parts[7] = <<RE, RU>>

_is_special_ra_case(parts) ==
    IF Len(parts) < 7 THEN FALSE
    ELSE /\ parts[1] = <<DOUSHI>>
         /\ parts[7] \in {<<KU, RE, RU>>, <<MI, RE, RU>>}

-----------------------------------------------------------------------------
(* grammar_checker.py: the six rules *)

\* Diagnostic(range=..., severity=2, message=...): a message is the name of
\* its rule followed by the values its f-string interpolates
Diagnostic(range, message) ==
    [range |-> range, severity |-> 2, message |-> message, source |-> "mozuku"]

\* _compute_token_byte_positions: the byte offset of each token's start
_compute_token_byte_positions(toks, t, line_starts) ==
    [i \in 1..Len(toks) |->
        _to_byte_offset([line |-> toks[i].line, character |-> toks[i].start_char],
                        t, line_starts)]

\* _in_sentence, had every token counted for every sentence
InEverySentence(byte_pos, sentence) == TRUE

_in_sentence(byte_pos, sentence) ==
    sentence.start <= byte_pos /\ byte_pos < sentence.end

_make_range(t, line_starts, start_byte, end_byte) ==
    [start |-> _byte_offset_to_position(t, line_starts, start_byte),
     end |-> _byte_offset_to_position(t, line_starts, end_byte)]

\* text.count("、")
_count_commas(s) == Cardinality({k \in 1..Len(s) : s[k] = TOUTEN})

\* what the rules of one check_grammar call share
Context(t, toks) ==
    LET line_starts == _compute_line_starts(t)
    IN  [text |-> t, tokens |-> toks, line_starts |-> line_starts,
         token_byte_positions |-> _compute_token_byte_positions(toks, t, line_starts),
         parts |-> [i \in 1..Len(toks) |-> FeatureParts(toks[i].feature)]]

\* the diagnostic over a whole sentence
SentenceDiagnostic(ctx, sentence, message) ==
    Diagnostic(_make_range(ctx.text, ctx.line_starts, sentence.start, sentence.end),
               message)

\* `if comma_count <= limit: continue`, had the test been `<`
CommaExceedsInclusive(comma_count, limit) == comma_count >= limit

\* the test of _check_comma_limit for a diagnostic
CommaExceeds(comma_count, limit) == ~(comma_count <= limit)

RECURSIVE CommaLimitLoop(_, _, _, _)
\* `for sentence in sentences` of _check_comma_limit, from sentence k
CommaLimitLoop(ctx, sents, limit, k) ==
    IF k > Len(sents) THEN <<>>
    ELSE LET sentence == sents[k]
             comma_count == _count_commas(sentence.text)
         IN  (IF CommaExceeds(comma_count, limit)
              THEN <<SentenceDiagnostic(ctx, sentence,
                                        <<"comma_limit", limit, comma_count>>)>>
              ELSE <<>>)
             \o CommaLimitLoop(ctx, sents, limit, k + 1)

\* _check_comma_limit, had it not returned at once for a limit of 0 or less
CommaLimitUnguarded(ctx, sents, limit) == CommaLimitLoop(ctx, sents, limit, 1)

\* _check_comma_limit: the diagnostics it appends
_check_comma_limit(ctx, sents, limit) ==
    IF limit <= 0 THEN <<>> ELSE CommaLimitLoop(ctx, sents, limit, 1)

\* the inner loop of _check_adversative_ga: the tokens of the sentence that
\* are an adversative が
AdversativeGaCount(ctx, sentence) ==
    Cardinality({i \in 1..Len(ctx.tokens) :
                    /\ _is_adversative_ga(ctx.parts[i])
                    /\ _in_sentence(ctx.token_byte_positions[i], sentence)})

RECURSIVE AdversativeGaLoop(_, _, _, _)
\* `for sentence in sentences` of _check_adversative_ga, from sentence k
AdversativeGaLoop(ctx, sents, max_count, k) ==
    IF k > Len(sents) THEN <<>>
    ELSE LET sentence == sents[k]
             count == AdversativeGaCount(ctx, sentence)
         IN  (IF count <= max_count THEN <<>>
              ELSE <<SentenceDiagnostic(ctx, sentence,
                                        <<"adversative_ga", max_count + 1, count>>)>>)
             \o AdversativeGaLoop(ctx, sents, max_count, k + 1)

\* _check_adversative_ga: the diagnostics it appends
_check_adversative_ga(ctx, sents, max_count) ==
    IF max_count <= 0 THEN <<>> ELSE AdversativeGaLoop(ctx, sents, max_count, 1)

\* the end byte of the token that starts at byte_pos
TokenEnd(token, byte_pos) == byte_pos + ByteLen(token.surface)

\* the locals of _check_duplicate_particle_surface at the top of a sentence
DuplicateStart ==
    [last_surface |-> <<>>, last_key |-> <<>>, last_start_byte |-> 0,
     last_line |-> -1, streak |-> 1, has_last |-> FALSE]

\* `if has_last and token.line != last_line`, had no line been compared
LineBreakIgnored(st, token) == FALSE

\* `if has_last and token.line != last_line`: the streak stops at a line break
LineBreakResets(st, token) == st.has_last /\ token.line # st.last_line

RECURSIVE DuplicateLoop(_, _, _, _, _)
\* `for i, token in enumerate(tokens)` of _check_duplicate_particle_surface
\* within one sentence, from token i with the locals st
DuplicateLoop(ctx, sentence, max_repeat, i, st) ==
    IF i > Len(ctx.tokens) THEN <<>>
    ELSE LET token == ctx.tokens[i]
             byte_pos == ctx.token_byte_positions[i]
         IN  IF ~_in_sentence(byte_pos, sentence) \/ ~_is_particle(ctx.parts[i])
             THEN DuplicateLoop(ctx, sentence, max_repeat, i + 1, st)
             ELSE LET current_key == _particle_key(ctx.parts[i])
                      s1 == IF LineBreakResets(st, token)
                            THEN [st EXCEPT !.streak = 1,
                                            !.last_start_byte = byte_pos,
                                            !.has_last = FALSE]
                            ELSE st
                      same == /\ s1.has_last
                              /\ token.surface = s1.last_surface
                              /\ current_key = s1.last_key
                      s2 == IF same THEN [s1 EXCEPT !.streak = @ + 1]
                            ELSE [s1 EXCEPT !.streak = 1, !.last_start_byte = byte_pos]
                      s3 == [s2 EXCEPT !.last_surface = token.surface,
                                       !.last_key = current_key,
                                       !.last_line = token.line,
                                       !.has_last = TRUE]
                  IN  (IF same /\ s2.streak > max_repeat
                       THEN <<Diagnostic(
                                _make_range(ctx.text, ctx.line_starts,
                                            s2.last_start_byte, TokenEnd(token, byte_pos)),
                                <<"duplicate_particle_surface", token.surface>>)>>
                       ELSE <<>>)
                      \o DuplicateLoop(ctx, sentence, max_repeat, i + 1, s3)

RECURSIVE DuplicateSentences(_, _, _, _)
DuplicateSentences(ctx, sents, max_repeat, k) ==
    IF k > Len(sents) THEN <<>>
    ELSE DuplicateLoop(ctx, sents[k], max_repeat, 1, DuplicateStart)
         \o DuplicateSentences(ctx, sents, max_repeat, k + 1)

\* _check_duplicate_particle_surface: the diagnostics it appends
_check_duplicate_particle_surface(ctx, sents, max_repeat) ==
    IF max_repeat <= 0 THEN <<>> ELSE DuplicateSentences(ctx, sents, max_repeat, 1)

\* prev_token = None
NoToken == [surface |-> <<>>, feature |-> <<>>, line |-> -1, start_char |-> -1]

\* the locals of _check_adjacent_particles at the top of a sentence
AdjacentStart ==
    [prev_is_particle |-> FALSE, prev_key |-> <<>>, prev_token |-> NoToken,
     prev_start_byte |-> 0, streak |-> 1]

\* `if byte_pos == prev_end`, had any later particle counted as adjacent
AdjacentOrLater(byte_pos, prev_end) == byte_pos >= prev_end

\* `if byte_pos == prev_end`
Adjacent(byte_pos, prev_end) == byte_pos = prev_end

RECURSIVE AdjacentLoop(_, _, _, _, _)
\* `for i, token in enumerate(tokens)` of _check_adjacent_particles within
\* one sentence, from token i with the locals st
AdjacentLoop(ctx, sentence, max_repeat, i, st) ==
    IF i > Len(ctx.tokens) THEN <<>>
    ELSE LET token == ctx.tokens[i]
             byte_pos == ctx.token_byte_positions[i]
         IN  IF ~_in_sentence(byte_pos, sentence)
             THEN AdjacentLoop(ctx, sentence, max_repeat, i + 1, st)
             ELSE LET current_is_particle == _is_particle(ctx.parts[i])
                      current_key == _particle_key(ctx.parts[i])
                      both == /\ current_is_particle
                              /\ st.prev_is_particle
                              /\ current_key = st.prev_key
                              /\ st.prev_token # NoToken
                      prev_end == st.prev_start_byte + ByteLen(st.prev_token.surface)
                      adjacent == both /\ Adjacent(byte_pos, prev_end)
                      s1 == IF both
                            THEN (IF adjacent THEN [st EXCEPT !.streak = @ + 1] ELSE st)
                            ELSE [st EXCEPT !.streak = 1,
                                            !.prev_start_byte =
                                                IF current_is_particle THEN byte_pos
                                                ELSE @]
                      s2 == IF current_is_particle
                            THEN [s1 EXCEPT !.prev_is_particle = TRUE,
                                            !.prev_token = token,
                                            !.prev_start_byte = byte_pos,
                                            !.prev_key = current_key]
                            ELSE [s1 EXCEPT !.prev_is_particle = FALSE]
                  IN  (IF adjacent /\ s1.streak > max_repeat
                       THEN <<Diagnostic(
                                _make_range(ctx.text, ctx.line_starts,
                                            st.prev_start_byte, TokenEnd(token, byte_pos)),
                                <<"adjacent_particles">>)>>
                       ELSE <<>>)
                      \o AdjacentLoop(ctx, sentence, max_repeat, i + 1, s2)

RECURSIVE AdjacentSentences(_, _, _, _)
AdjacentSentences(ctx, sents, max_repeat, k) ==
    IF k > Len(sents) THEN <<>>
    ELSE AdjacentLoop(ctx, sents[k], max_repeat, 1, AdjacentStart)
         \o AdjacentSentences(ctx, sents, max_repeat, k + 1)

\* _check_adjacent_particles: the diagnostics it appends
_check_adjacent_particles(ctx, sents, max_repeat) ==
    IF max_repeat <= 0 THEN <<>> ELSE AdjacentSentences(ctx, sents, max_repeat, 1)

\* the locals of _check_conjunction_repeats before the first token
ConjunctionStart ==
    [last_surface |-> <<>>, last_start_byte |-> 0, last_end_byte |-> 0,
     streak |-> 1, has_last |-> FALSE]

\* SeparatedByNewline, had the text between the conjunctions not been read
NeverSeparated(t, last_end_byte, current_start) == FALSE

\* "\n" in text.encode("utf-8")[last_end_byte:current_start].decode(...)
SeparatedByNewline(t, last_end_byte, current_start) ==
    LET text_between == DecodeSlice(t, last_end_byte, current_start)
    IN  \E k \in 1..Len(text_between) : text_between[k] = LF

RECURSIVE ConjunctionLoop(_, _, _, _)
\* `for i, token in enumerate(tokens)` of _check_conjunction_repeats, from
\* token i with the locals st
ConjunctionLoop(ctx, max_repeat, i, st) ==
    IF i > Len(ctx.tokens) THEN <<>>
    ELSE LET token == ctx.tokens[i]
         IN  IF ~_is_conjunction(ctx.parts[i])
             THEN ConjunctionLoop(ctx, max_repeat, i + 1, st)
             ELSE LET current_start == ctx.token_byte_positions[i]
                      current_end == TokenEnd(token, current_start)
                      separated_by_newline ==
                          /\ st.has_last
                          /\ SeparatedByNewline(ctx.text, st.last_end_byte, current_start)
                      same == /\ st.has_last
                              /\ token.surface = st.last_surface
                              /\ ~separated_by_newline
                      streak == IF same THEN st.streak + 1 ELSE 1
                      s1 == [last_surface |-> token.surface,
                             last_start_byte |-> current_start,
                             last_end_byte |-> current_end,
                             streak |-> streak,
                             has_last |-> TRUE]
                  IN  (IF same /\ streak > max_repeat
                       THEN <<Diagnostic(
                                _make_range(ctx.text, ctx.line_starts,
                                            st.last_start_byte, current_end),
                                <<"conjunction_repeat", token.surface>>)>>
                       ELSE <<>>)
                      \o ConjunctionLoop(ctx, max_repeat, i + 1, s1)

\* _check_conjunction_repeats: the diagnostics it appends
_check_conjunction_repeats(ctx, max_repeat) ==
    IF max_repeat <= 0 THEN <<>> ELSE ConjunctionLoop(ctx, max_repeat, 1, ConjunctionStart)

RECURSIVE SpecialRaLoop(_, _)
\* the first loop of _check_ra_dropping: 来れる and 見れる on their own
SpecialRaLoop(ctx, i) ==
    IF i > Len(ctx.tokens) THEN <<>>
    ELSE LET token == ctx.tokens[i]
             start_byte == ctx.token_byte_positions[i]
         IN  (IF _is_special_ra_case(ctx.parts[i])
              THEN <<Diagnostic(
                       _make_range(ctx.text, ctx.line_starts,
                                   start_byte, TokenEnd(token, start_byte)),
                       <<"ra_dropping">>)>>
              ELSE <<>>)
             \o SpecialRaLoop(ctx, i + 1)

\* the test of the second loop of _check_ra_dropping on the pair (i-1, i)
RaPair(ctx, i) ==
    /\ i >= 2
    /\ _is_target_verb(ctx.parts[i - 1])
    /\ _is_ra_word(ctx.parts[i])

RECURSIVE RaPairLoop(_, _)
\* the second loop of _check_ra_dropping: 一段 未然形 verb + 接尾 れる
RaPairLoop(ctx, i) ==
    IF i > Len(ctx.tokens) THEN <<>>
    ELSE (IF RaPair(ctx, i)
          THEN <<Diagnostic(
                   _make_range(ctx.text, ctx.line_starts,
                               ctx.token_byte_positions[i - 1],
                               TokenEnd(ctx.tokens[i], ctx.token_byte_positions[i])),
                   <<"ra_dropping">>)>>
          ELSE <<>>)
         \o RaPairLoop(ctx, i + 1)

\* _check_ra_dropping: the diagnostics it appends
_check_ra_dropping(ctx) == SpecialRaLoop(ctx, 1) \o RaPairLoop(ctx, 1)

\* the diagnostics of one rule of check_grammar under configuration cfg
RuleDiagnostics(rule, cfg, ctx, sents) ==
    LET rules == cfg.rules
    IN  CASE rule = "comma_limit" ->
               IF rules.comma_limit
               THEN _check_comma_limit(ctx, sents, rules.comma_limit_max) ELSE <<>>
          [] rule = "adversative_ga" ->
               IF rules.adversative_ga
               THEN _check_adversative_ga(ctx, sents, rules.adversative_ga_max) ELSE <<>>
          [] rule = "duplicate_particle_surface" ->
               IF rules.duplicate_particle_surface
               THEN _check_duplicate_particle_surface(
                        ctx, sents, rules.duplicate_particle_surface_max_repeat)
               ELSE <<>>
          [] rule = "adjacent_particles" ->
               IF rules.adjacent_particles
               THEN _check_adjacent_particles(ctx, sents, rules.adjacent_particles_max_repeat)
               ELSE <<>>
          [] rule = "conjunction_repeat" ->
               IF rules.conjunction_repeat
               THEN _check_conjunction_repeats(ctx, rules.conjunction_repeat_max) ELSE <<>>
          [] rule = "ra_dropping" ->
               IF rules.ra_dropping THEN _check_ra_dropping(ctx) ELSE <<>>

\* the rules in the order check_grammar runs them
RuleOrder ==
    <<"comma_limit", "adversative_ga", "duplicate_particle_surface",
      "adjacent_particles", "conjunction_repeat", "ra_dropping">>

RECURSIVE RunRules(_, _, _, _)
RunRules(k, cfg, ctx, sents) ==
    IF k > Len(RuleOrder) THEN <<>>
    ELSE RuleDiagnostics(RuleOrder[k], cfg, ctx, sents) \o RunRules(k + 1, cfg, ctx, sents)

\* check_grammar, had the global switch been ignored
CheckGrammarAlways(cfg, t, toks, sents) == RunRules(1, cfg, Context(t, toks), sents)

\* GrammarChecker.check_grammar under configuration cfg
check_grammar(cfg, t, toks, sents) ==
    IF ~cfg.grammar_check THEN <<>> ELSE RunRules(1, cfg, Context(t, toks), sents)

-----------------------------------------------------------------------------
(* Checking grammar: the inputs and the call *)

MaxWords == 3          \* longest analysed text, in words and white space
MaxThreshold == 2      \* largest threshold of a rule

RECURSIVE Join(_)
\* ",".join(fields)
Join(fields) ==
    IF fields = <<>> THEN <<>>
    ELSE IF Len(fields) = 1 THEN fields[1]
    ELSE fields[1] \o <<COMMA>> \o Join(Tail(fields))

\* Analyzer._build_feature_string:
\* 品詞,細分類1,細分類2,細分類3,活用型,活用形,原形,読み,発音
Feature(main_pos, sub1, inflection, conjugation, lemma, reading) ==
    Join(<<<<main_pos>>, <<sub1>>, <<STAR>>, <<STAR>>, <<inflection>>,
           <<conjugation>>, lemma, reading, reading>>)

\* the first n fields of a feature string
Truncated(feature, n) == Join(SubSeq(FeatureParts(feature), 1, n))

\* a word of the text as the analyzer sees it; white space is a token of
\* spaCy's that _token_to_data drops
Word(surface, feature) == [surface |-> surface, feature |-> feature, is_space |-> FALSE]
Space(c) == [surface |-> <<c>>, feature |-> <<>>, is_space |-> TRUE]

Touten == Word(<<TOUTEN>>, Feature(KIGOU, "touten", STAR, STAR, <<TOUTEN>>, <<TOUTEN>>))
Emoji == Word(<<EMOJI>>, Feature(KIGOU, "ippan", STAR, STAR, <<EMOJI>>, <<EMOJI>>))
Noun == Word(<<JA>>, Feature(MEISHI, "futsuu-meishi", STAR, STAR, <<JA>>, <<JA>>))
GaConjunctive == Word(<<GA>>, Feature(JOSHI, SETSUZOKUJOSHI, STAR, STAR, <<GA>>, <<GA>>))
GaCase == Word(<<GA>>, Feature(JOSHI, KAKUJOSHI, STAR, STAR, <<GA>>, <<GA>>))
NoCase == Word(<<NO>>, Feature(JOSHI, KAKUJOSHI, STAR, STAR, <<NO>>, <<NO>>))
Mata == Word(<<MA, TA>>, Feature(SETSUZOKUSHI, STAR, STAR, STAR, <<MA, TA>>, <<MA, TA>>))
Demo == Word(<<DE, MO>>, Feature(SETSUZOKUSHI, STAR, STAR, STAR, <<DE, MO>>, <<DE, MO>>))
Tabe == Word(<<SHOKU, BE>>,
             Feature(DOUSHI, JIRITSU, ICHIDAN, MIZENKEI, <<SHOKU, BE, RU>>, <<TA, BE>>))
Ika == Word(<<IKU, KA>>,
            Feature(DOUSHI, JIRITSU, GODAN, MIZENKEI, <<IKU, KU>>, <<"i", KA>>))
Reru == Word(<<RE, RU>>, Feature(DOUSHI, SETSUBI, ICHIDAN, KIHONKEI, <<RE, RU>>, <<RE, RU>>))
Mireru == Word(<<MI, RE, RU>>,
               Feature(DOUSHI, JIRITSU, ICHIDAN, KIHONKEI, <<MI, RE, RU>>, <<MI, RE, RU>>))

\* a word whose feature string is cut to its first n fields
Cut(word, n) == [word EXCEPT !.feature = Truncated(@, n)]

\* the vocabularies an analysed text is drawn from
Lexicons ==
    { {Touten, Emoji, Space(LF)},
      {GaConjunctive, GaCase, NoCase, Space(SP)},
      {Mata, Demo, Noun, Space(LF)},
      {Tabe, Ika, Reru, Mireru},
      {Tabe, Reru, Space(LF)},
      {Cut(GaConjunctive, 6), Cut(GaConjunctive, 1), Cut(GaConjunctive, 0),
       Cut(Mireru, 6)},
      {Cut(Tabe, 5), Tabe, Cut(Reru, 6), Reru},
      {Cut(Mata, 1), Cut(Mata, 0)} }

\* two-word vocabularies, for the longer texts a streak across lines needs
NarrowLexicons ==
    { {GaConjunctive, Space(LF)}, {Mata, Space(LF)} }

\* the longest text over a narrow vocabulary
LongWords == MaxWords + 2

\* the word lists analysed
WordLists ==
    UNION ({Strings(lexicon, MaxWords) : lexicon \in Lexicons}
           \cup {Strings(lexicon, LongWords) : lexicon \in NarrowLexicons})

RECURSIVE TextOf(_)
\* the text the words spell
TextOf(words) == IF words = <<>> THEN <<>> ELSE Head(words).surface \o TextOf(Tail(words))

\* analyzer._char_offset_to_position
_char_offset_to_position(t, line_starts, char_offset) ==
    LET line == LineOf(line_starts, char_offset)
        line_start == line_starts[line + 1]
        line_text == SubSeq(t, line_start + 1, char_offset)
    IN  [line |-> line, character |-> Utf16Length(line_text)]

\* Analyzer._token_to_data of the word at character offset char_start: the
\* fields of TokenData the grammar checker reads
_token_to_data(word, t, line_starts, char_start) ==
    LET pos == _char_offset_to_position(t, line_starts, char_start)
    IN  [surface |-> word.surface, feature |-> word.feature,
         line |-> pos.line, start_char |-> pos.character]

RECURSIVE TokensFrom(_, _, _, _)
\* `for token in doc` of Analyzer.analyze_text, from word k at char_start
TokensFrom(words, k, t, char_start) ==
    IF k > Len(words) THEN <<>>
    ELSE (IF words[k].is_space THEN <<>>
          ELSE <<_token_to_data(words[k], t, _compute_line_starts(t), char_start)>>)
         \o TokensFrom(words, k + 1, t, char_start + Len(words[k].surface))

\* Analyzer.analyze_text on the text the words spell
analyze_text(words) == TokensFrom(words, 1, TextOf(words), 0)

\* the SentenceBoundary of the words from..to, sentence number sentence_id
SentenceOver(words, from, to, sentence_id) ==
    LET before == TextOf(SubSeq(words, 1, from - 1))
        sent == TextOf(SubSeq(words, from, to))
    IN  [start |-> ByteLen(before), end |-> ByteLen(before) + ByteLen(sent),
         sentence_id |-> sentence_id, text |-> sent]

\* Analyzer.get_sentences, the parser having ended the first sentence after
\* word number cut
get_sentences(words, cut) ==
    IF words = <<>> THEN <<>>
    ELSE IF cut >= Len(words) THEN <<SentenceOver(words, 1, Len(words), 0)>>
    ELSE <<SentenceOver(words, 1, cut, 0), SentenceOver(words, cut + 1, Len(words), 1)>>

AllRules == {RuleOrder[k] : k \in 1..Len(RuleOrder)}

\* RuleToggles with the rules of `enabled` on and every threshold at m
RuleToggles(enabled, m) ==
    [comma_limit |-> "comma_limit" \in enabled,
     adversative_ga |-> "adversative_ga" \in enabled,
     duplicate_particle_surface |-> "duplicate_particle_surface" \in enabled,
     adjacent_particles |-> "adjacent_particles" \in enabled,
     conjunction_repeat |-> "conjunction_repeat" \in enabled,
     ra_dropping |-> "ra_dropping" \in enabled,
     comma_limit_max |-> m,
     adversative_ga_max |-> m,
     duplicate_particle_surface_max_repeat |-> m,
     adjacent_particles_max_repeat |-> m,
     conjunction_repeat_max |-> m]

\* severities of Diagnostic: 1=Error, 2=Warning (3=Info, 4=Hint)
ERROR == 1
WARNING == 2

\* AnalysisConfig with warning_min_severity at its default
AnalysisConfig(grammar_check, rules) ==
    [grammar_check |-> grammar_check, warning_min_severity |-> WARNING, rules |-> rules]

\* the thresholds configured: below zero, zero, and up to MaxThreshold
Thresholds == (0 - 1)..MaxThreshold

\* the configurations checked: every rule on at each threshold, every rule
\* off, and the global switch off
Configs ==
    {AnalysisConfig(TRUE, RuleToggles(AllRules, m)) : m \in Thresholds}
    \cup {AnalysisConfig(TRUE, RuleToggles({}, 1)),
          AnalysisConfig(FALSE, RuleToggles(AllRules, 1))}

InitGrammar ==
    /\ \E words \in WordLists :
          /\ text = TextOf(words)
          /\ tokens = analyze_text(words)
          /\ \E cut \in 1..Max(1, Len(words)) : sentences = get_sentences(words, cut)
    /\ language_id = "japanese"
    /\ config \in Configs
    /\ diagnostics = <<>>
    /\ MaskIdle
    /\ SanitizeIdle
    /\ OffsetIdle
    /\ ServerIdle
    /\ pc = "tokens"

\* GrammarChecker.check_grammar(text, tokens, sentences)
CheckGrammar ==
    /\ pc = "tokens"
    /\ diagnostics' = check_grammar(config, text, tokens, sentences)
    /\ pc' = "check_grammar"
    /\ UNCHANGED <<text, language_id, segments, masked, comment_text, sanitized,
                   resanitized, position, byte_offset, converted, round_trip>>
    /\ UNCHANGED <<tokens, sentences, config, serverVars>>

NextGrammar == CheckGrammar

SpecGrammar == InitGrammar /\ [][NextGrammar]_vars

\* check_grammar has returned
Checked == pc = "check_grammar"

\* the diagnostics of `rule` among those returned
Of(rule) == SelectSeq(diagnostics, LAMBDA d : d.message[1] = rule)

-----------------------------------------------------------------------------
(* The claims about the grammar rules *)

\* the LSP range of the bytes [start_byte, end_byte) of the text
SpanRange(start_byte, end_byte) ==
    [start |-> ServerByteOffsetToPosition(text, start_byte),
     end |-> ServerByteOffsetToPosition(text, end_byte)]

\* rule is switched on and its threshold max is at least 1
RuleOn(flag, max) == Checked /\ config.grammar_check /\ flag /\ max >= 1

\* the whole-sentence diagnostics ds are one for each sentence of `over`,
\* in order, each spanning its sentence
OnePerSentence(ds, over) ==
    /\ Len(ds) = Len(over)
    /\ \A k \in 1..Len(over) : ds[k].range = SpanRange(over[k].start, over[k].end)

\* C11: with comma_limit on and a limit of at least 1, there is exactly one
\* comma_limit diagnostic for each sentence whose text has more than `limit`
\* full-width commas, none for any other sentence, and its range is the
\* sentence's span [start, end) converted to positions.
C11_CommaLimit ==
    RuleOn(config.rules.comma_limit, config.rules.comma_limit_max) =>
        OnePerSentence(
            Of("comma_limit"),
            SelectSeq(sentences,
                      LAMBDA s : Cardinality({k \in 1..Len(s.text) : s.text[k] = TOUTEN})
                                     > config.rules.comma_limit_max))

\* two sentences, the first over the limit and the second at the limit
C11_Witness ==
    /\ RuleOn(config.rules.comma_limit, config.rules.comma_limit_max)
    /\ Len(sentences) = 2
    /\ _count_commas(sentences[1].text) = config.rules.comma_limit_max + 1
    /\ _count_commas(sentences[2].text) = config.rules.comma_limit_max
    /\ Len(Of("comma_limit")) = 1

\* the byte at which a token starts, from its (line, UTF-16 column)
TokenStartByte(token) ==
    CharToByte(text, _position_to_offset(
                         text, [line |-> token.line, character |-> token.start_char]))

\* token k starts within the bytes [start, end) of the sentence
StartsIn(k, sentence) ==
    /\ sentence.start <= TokenStartByte(tokens[k])
    /\ TokenStartByte(tokens[k]) < sentence.end

\* field number n (from 1) of a token's feature string is the string value
FieldIs(token, n, value) ==
    LET fields == FeatureParts(token.feature)
    IN  Len(fields) >= n /\ fields[n] = value

\* 助詞, 接続助詞, base form が
IsConjunctiveGa(token) ==
    /\ FieldIs(token, 1, <<JOSHI>>)
    /\ FieldIs(token, 2, <<SETSUZOKUJOSHI>>)
    /\ FieldIs(token, 7, <<GA>>)

\* how many adversative が start within the sentence
GaIn(sentence) ==
    Cardinality({k \in 1..Len(tokens) : IsConjunctiveGa(tokens[k]) /\ StartsIn(k, sentence)})

\* C12: with adversative_ga on and a maximum of at least 1, there is exactly
\* one whole-sentence adversative_ga diagnostic for each sentence in which
\* more than `max` tokens of (助詞, 接続助詞, base form が) start, and none for
\* any other sentence.
C12_AdversativeGa ==
    RuleOn(config.rules.adversative_ga, config.rules.adversative_ga_max) =>
        OnePerSentence(
            Of("adversative_ga"),
            SelectSeq(sentences, LAMBDA s : GaIn(s) > config.rules.adversative_ga_max))

\* a sentence over the maximum, and another sentence holding a が that is a
\* case particle and so not counted
C12_Witness ==
    /\ RuleOn(config.rules.adversative_ga, config.rules.adversative_ga_max)
    /\ Len(sentences) = 2
    /\ GaIn(sentences[1]) = config.rules.adversative_ga_max + 1
    /\ \E k \in 1..Len(tokens) :
          /\ StartsIn(k, sentences[2])
          /\ FieldIs(tokens[k], 2, <<KAKUJOSHI>>)
          /\ FieldIs(tokens[k], 7, <<GA>>)
    /\ Len(Of("adversative_ga")) = 1

\* token k is a particle that starts in the sentence
ParticleIn(k, sentence) == FieldIs(tokens[k], 1, <<JOSHI>>) /\ StartsIn(k, sentence)

\* tokens i and j are consecutive particles of the sentence
ConsecutiveParticles(i, j, sentence) ==
    /\ i < j
    /\ ParticleIn(i, sentence)
    /\ ParticleIn(j, sentence)
    /\ \A k \in (i + 1)..(j - 1) : ~ParticleIn(k, sentence)

\* the (POS, sub1) of a token
KeyOf(token) == Prefix(FeatureParts(token.feature), 2)

\* tokens i and j have the same surface and the same (POS, sub1)
SameParticle(i, j) ==
    tokens[i].surface = tokens[j].surface /\ KeyOf(tokens[i]) = KeyOf(tokens[j])

\* the position of the first byte of token k, and of the byte after its last
StartOf(k) == ServerByteOffsetToPosition(text, TokenStartByte(tokens[k]))
EndOf(k) ==
    ServerByteOffsetToPosition(text, TokenStartByte(tokens[k]) + ByteLen(tokens[k].surface))

\* the diagnostics of a rule that were raised at token k: they end where k ends
RaisedAt(rule, k) == {n \in 1..Len(Of(rule)) : Of(rule)[n].range.end = EndOf(k)}

\* C13: two consecutive particles of a sentence with the same surface and the
\* same (POS, sub1) that are on different lines raise no
\* duplicate_particle_surface diagnostic at the second one, whatever
\* max_repeat is; the second one starts a streak of length 1: a third equal
\* particle on its line raises a diagnostic only if max_repeat is 1, and that
\* diagnostic starts at the second particle.
C13_StreakResetsAcrossLines ==
    Checked =>
        \A s \in 1..Len(sentences) : \A i, j \in 1..Len(tokens) :
            (/\ ConsecutiveParticles(i, j, sentences[s])
             /\ SameParticle(i, j)
             /\ tokens[i].line # tokens[j].line)
            => /\ RaisedAt("duplicate_particle_surface", j) = {}
               /\ \A k \in 1..Len(tokens) :
                     (/\ ConsecutiveParticles(j, k, sentences[s])
                      /\ SameParticle(j, k)
                      /\ tokens[j].line = tokens[k].line
                      /\ RuleOn(config.rules.duplicate_particle_surface,
                                config.rules.duplicate_particle_surface_max_repeat))
                     => /\ (RaisedAt("duplicate_particle_surface", k) # {}
                            <=> config.rules.duplicate_particle_surface_max_repeat = 1)
                        /\ \A n \in RaisedAt("duplicate_particle_surface", k) :
                              Of("duplicate_particle_surface")[n].range.start = StartOf(j)

\* が, line break, が, が in one sentence with max_repeat = 1: nothing is
\* raised at the second が, and the third raises a diagnostic from the second
C13_Witness ==
    /\ RuleOn(config.rules.duplicate_particle_surface,
              config.rules.duplicate_particle_surface_max_repeat)
    /\ config.rules.duplicate_particle_surface_max_repeat = 1
    /\ Len(sentences) = 1
    /\ \E i, j, k \in 1..Len(tokens) :
          /\ ConsecutiveParticles(i, j, sentences[1])
          /\ ConsecutiveParticles(j, k, sentences[1])
          /\ SameParticle(i, j)
          /\ SameParticle(j, k)
          /\ tokens[i].line # tokens[j].line
          /\ tokens[j].line = tokens[k].line
          /\ RaisedAt("duplicate_particle_surface", j) = {}
          /\ RaisedAt("duplicate_particle_surface", k) # {}

\* the byte after the last byte of a token
TokenEndByte(token) == TokenStartByte(token) + ByteLen(token.surface)

\* tokens i and i + 1 are particles of one (POS, sub1) key
ParticlePair(i) ==
    /\ i + 1 <= Len(tokens)
    /\ FieldIs(tokens[i], 1, <<JOSHI>>)
    /\ FieldIs(tokens[i + 1], 1, <<JOSHI>>)
    /\ KeyOf(tokens[i]) = KeyOf(tokens[i + 1])

\* C14: whatever max_repeat is, two consecutive particle tokens of one
\* (POS, sub1) key of which the second does not start at the byte where the
\* first ends raise no adjacent_particles diagnostic at the second token.
C14_AdjacencyRequired ==
    Checked =>
        \A i \in 1..Len(tokens) :
            (ParticlePair(i) /\ TokenStartByte(tokens[i + 1]) # TokenEndByte(tokens[i]))
            => RaisedAt("adjacent_particles", i + 1) = {}

\* two case particles of one sentence with a space between them, the rule on
\* with max_repeat = 1, and nothing raised at the second
C14_Witness ==
    /\ RuleOn(config.rules.adjacent_particles, config.rules.adjacent_particles_max_repeat)
    /\ config.rules.adjacent_particles_max_repeat = 1
    /\ Len(sentences) = 1
    /\ \E i \in 1..Len(tokens) :
          /\ ParticlePair(i)
          /\ tokens[i].line = tokens[i + 1].line
          /\ TokenStartByte(tokens[i + 1]) = TokenEndByte(tokens[i]) + 1
          /\ RaisedAt("adjacent_particles", i + 1) = {}

\* token k is a conjunction (POS 接続詞)
IsConjunctionToken(k) == FieldIs(tokens[k], 1, <<SETSUZOKUSHI>>)

\* the conjunction tokens before token k
ConjunctionsBefore(k) == {i \in 1..(k - 1) : IsConjunctionToken(i)}

\* the last conjunction token before token k, which is not the first
PreviousConjunction(k) == CHOOSE i \in ConjunctionsBefore(k) :
                              \A n \in ConjunctionsBefore(k) : n <= i

\* a line break lies in the text from the end of token i to the start of
\* token k
NewlineBetween(i, k) ==
    \E n \in 1..Len(text) :
        /\ text[n] = LF
        /\ TokenEndByte(tokens[i]) <= CharToByte(text, n - 1)
        /\ CharToByte(text, n - 1) < TokenStartByte(tokens[k])

RECURSIVE ConjunctionStreak(_)
\* the streak of the conjunction token k: one more than the streak of the
\* previous conjunction of the document if that one has the same surface and
\* no line break lies between them, and 1 otherwise
ConjunctionStreak(k) ==
    IF ConjunctionsBefore(k) = {} THEN 1
    ELSE LET i == PreviousConjunction(k)
         IN  IF tokens[i].surface = tokens[k].surface /\ ~NewlineBetween(i, k)
             THEN ConjunctionStreak(i) + 1
             ELSE 1

\* C15: with conjunction_repeat on and max_repeat at least 1, the streak runs
\* over the conjunction tokens of the whole document, sentences
\* notwithstanding: a conjunction extends it only if it has the surface of
\* the previous conjunction and no "\n" lies between them, and else restarts
\* it at 1; a diagnostic is raised at a conjunction exactly when its streak
\* exceeds max_repeat, and nowhere else.
C15_ConjunctionRepeat ==
    RuleOn(config.rules.conjunction_repeat, config.rules.conjunction_repeat_max) =>
        LET over == {k \in 1..Len(tokens) :
                        /\ IsConjunctionToken(k)
                        /\ ConjunctionStreak(k) > config.rules.conjunction_repeat_max}
        IN  /\ Len(Of("conjunction_repeat")) = Cardinality(over)
            /\ \A k \in 1..Len(tokens) :
                  Cardinality(RaisedAt("conjunction_repeat", k))
                      = (IF k \in over THEN 1 ELSE 0)

\* three equal conjunctions with max_repeat = 1: the second, in another
\* sentence than the first, raises a diagnostic; the third, after a line
\* break, does not
C15_Witness ==
    /\ RuleOn(config.rules.conjunction_repeat, config.rules.conjunction_repeat_max)
    /\ config.rules.conjunction_repeat_max = 1
    /\ Len(sentences) = 2
    /\ Len(tokens) = 3
    /\ \A k \in 1..3 : IsConjunctionToken(k) /\ tokens[k].surface = tokens[1].surface
    /\ StartsIn(1, sentences[1])
    /\ StartsIn(2, sentences[2])
    /\ ~NewlineBetween(1, 2)
    /\ NewlineBetween(2, 3)
    /\ Len(Of("conjunction_repeat")) = 1
    /\ RaisedAt("conjunction_repeat", 2) # {}

\* 動詞, 自立, inflection type 一段, form 未然形
IsIchidanMizenkei(token) ==
    /\ FieldIs(token, 1, <<DOUSHI>>)
    /\ FieldIs(token, 2, <<JIRITSU>>)
    /\ FieldIs(token, 5, <<ICHIDAN>>)
    /\ FieldIs(token, 6, <<MIZENKEI>>)

\* 動詞, 接尾, base form れる
IsReruSuffix(token) ==
    /\ FieldIs(token, 1, <<DOUSHI>>)
    /\ FieldIs(token, 2, <<SETSUBI>>)
    /\ FieldIs(token, 7, <<RE, RU>>)

\* the ra_dropping diagnostics that run from the start of token i to the end
\* of token j
SpanningRa(i, j) ==
    {n \in 1..Len(Of("ra_dropping")) :
        Of("ra_dropping")[n].range = [start |-> StartOf(i), end |-> EndOf(j)]}

\* C16: with ra_dropping on, each pair of consecutive tokens of which the
\* first is (動詞, 自立, 一段, 未然形) and the second (動詞, 接尾, base form
\* れる) has exactly one diagnostic running from the start of the first to
\* the end of the second, and no other pair of tokens has one.
C16_RaDroppingPair ==
    (Checked /\ config.grammar_check /\ config.rules.ra_dropping) =>
        \A i, j \in 1..Len(tokens) :
            i < j =>
                Cardinality(SpanningRa(i, j))
                    = (IF /\ j = i + 1
                          /\ IsIchidanMizenkei(tokens[i])
                          /\ IsReruSuffix(tokens[j])
                       THEN 1 ELSE 0)

\* 食べ + れる + れる: one diagnostic over the first pair, none over the second
C16_Witness ==
    /\ Checked /\ config.grammar_check /\ config.rules.ra_dropping
    /\ Len(tokens) = 3
    /\ IsIchidanMizenkei(tokens[1])
    /\ IsReruSuffix(tokens[2])
    /\ IsReruSuffix(tokens[3])
    /\ Cardinality(SpanningRa(1, 2)) = 1
    /\ SpanningRa(2, 3) = {}
    /\ Len(Of("ra_dropping")) = 1

\* rules, with the flag of rule q set to flag and its threshold to m
SetRule(rules, q, flag, m) ==
    CASE q = "comma_limit" ->
           [rules EXCEPT !.comma_limit = flag, !.comma_limit_max = m]
      [] q = "adversative_ga" ->
           [rules EXCEPT !.adversative_ga = flag, !.adversative_ga_max = m]
      [] q = "duplicate_particle_surface" ->
           [rules EXCEPT !.duplicate_particle_surface = flag,
                         !.duplicate_particle_surface_max_repeat = m]
      [] q = "adjacent_particles" ->
           [rules EXCEPT !.adjacent_particles = flag,
                         !.adjacent_particles_max_repeat = m]
      [] q = "conjunction_repeat" ->
           [rules EXCEPT !.conjunction_repeat = flag, !.conjunction_repeat_max = m]
      [] q = "ra_dropping" -> [rules EXCEPT !.ra_dropping = flag]

\* the flag of rule q
FlagOf(rules, q) ==
    CASE q = "comma_limit" -> rules.comma_limit
      [] q = "adversative_ga" -> rules.adversative_ga
      [] q = "duplicate_particle_surface" -> rules.duplicate_particle_surface
      [] q = "adjacent_particles" -> rules.adjacent_particles
      [] q = "conjunction_repeat" -> rules.conjunction_repeat
      [] q = "ra_dropping" -> rules.ra_dropping

\* what check_grammar returns for the state's input under configuration cfg
Rechecked(cfg) == check_grammar(cfg, text, tokens, sentences)

\* the same, ctx being the line starts and token positions of the state's
\* input, which no configuration changes
RecheckedIn(ctx, cfg) ==
    IF ~cfg.grammar_check THEN <<>> ELSE RunRules(1, cfg, ctx, sentences)

\* the diagnostics of ds that are not of rule q
Without(ds, q) == SelectSeq(ds, LAMBDA d : d.message[1] # q)

\* cfg with the flag of rule q set to flag and its threshold to m
WithRule(cfg, q, flag, m) == [cfg EXCEPT !.rules = SetRule(@, q, flag, m)]

\* cfg with every rule but q off
OnlyRule(cfg, q) ==
    [cfg EXCEPT !.rules = [RuleToggles(IF FlagOf(@, q) THEN {q} ELSE {}, 1) EXCEPT
                              !.comma_limit_max = cfg.rules.comma_limit_max,
                              !.adversative_ga_max = cfg.rules.adversative_ga_max,
                              !.duplicate_particle_surface_max_repeat =
                                  cfg.rules.duplicate_particle_surface_max_repeat,
                              !.adjacent_particles_max_repeat =
                                  cfg.rules.adjacent_particles_max_repeat,
                              !.conjunction_repeat_max = cfg.rules.conjunction_repeat_max]]

\* C17: with the global switch off, or with all six rule flags off,
\* check_grammar returns no diagnostic whatever the input; and a rule's
\* diagnostics depend on its own flag and threshold only: switching every
\* other rule off leaves exactly that rule's diagnostics, switching one rule
\* off removes exactly that rule's diagnostics, and another threshold for
\* one rule leaves the diagnostics of every other rule as they are (both
\* checked from the thresholds of 1).
C17_RuleIndependence ==
    Checked =>
        /\ (~config.grammar_check \/ \A q \in AllRules : ~FlagOf(config.rules, q))
               => diagnostics = <<>>
        /\ LET ctx == Context(text, tokens)
           IN  \A q \in AllRules :
                  /\ RecheckedIn(ctx, OnlyRule(config, q)) = Of(q)
                  /\ config.rules.comma_limit_max = 1
                         => RecheckedIn(ctx, WithRule(config, q, FALSE, 1))
                                = Without(diagnostics, q)
                  /\ config.rules.comma_limit_max = 1
                         => Without(RecheckedIn(ctx, WithRule(config, q, TRUE, MaxThreshold)), q)
                                = Without(diagnostics, q)

\* every rule is off, for an input that has diagnostics once the rules are on
C17_Witness ==
    /\ Checked
    /\ config.grammar_check
    /\ \A q \in AllRules : ~FlagOf(config.rules, q)
    /\ diagnostics = <<>>
    /\ Len(Rechecked(AnalysisConfig(TRUE, RuleToggles(AllRules, 1)))) >= 3

\* three rules have each raised a diagnostic, and switching adjacent_particles
\* off removes its diagnostics and no other
C17_WitnessRemoval ==
    /\ Checked
    /\ Of("adversative_ga") # <<>>
    /\ Of("duplicate_particle_surface") # <<>>
    /\ Of("adjacent_particles") # <<>>
    /\ Rechecked(WithRule(config, "adjacent_particles", FALSE, 1))
           = Of("adversative_ga") \o Of("duplicate_particle_surface")

\* how many comma-separated fields the feature string of token k has
Fields(k) == IF tokens[k].feature = <<>> THEN 0 ELSE Len(FeatureParts(tokens[k].feature))

\* the diagnostics of a rule that start where token k starts
StartingAt(rule, k) == {n \in 1..Len(Of(rule)) : Of(rule)[n].range.start = StartOf(k)}

\* the rules that test for particles and conjunctions by the first field
FirstFieldRules == {"duplicate_particle_surface", "adjacent_particles", "conjunction_repeat"}

\* no diagnostic rests on a token that lacks a field the rule reads beyond
\* the first: a sentence has an adversative_ga diagnostic only if more than
\* the maximum of its tokens have the seven fields, a ra_dropping diagnostic
\* ends only at a token of seven fields, and one over two tokens starts only
\* at a token of six
LongFieldsRespected ==
    /\ \A s \in 1..Len(sentences) :
          (\E n \in 1..Len(Of("adversative_ga")) :
              Of("adversative_ga")[n].range
                  = SpanRange(sentences[s].start, sentences[s].end))
          => Cardinality({k \in 1..Len(tokens) : StartsIn(k, sentences[s]) /\ Fields(k) >= 7})
                 > config.rules.adversative_ga_max
    /\ \A k \in 1..Len(tokens) :
          /\ Fields(k) < 7 => RaisedAt("ra_dropping", k) = {}
          /\ Fields(k) < 6 => StartingAt("ra_dropping", k) = {}

\* no diagnostic of the particle and conjunction rules is raised at, or
\* starts at, a token with at most n fields
ShortNeverMatches(n) ==
    \A k \in 1..Len(tokens) : \A rule \in FirstFieldRules :
        Fields(k) <= n => RaisedAt(rule, k) = {} /\ StartingAt(rule, k) = {}

\* C19 as stated: a token with fewer fields than a rule reads (seven, six,
\* and for the particle and conjunction tests none or one) is not matched
\* by that rule, and no diagnostic rests on it.
C19_TruncatedNeverMatches == Checked => LongFieldsRespected /\ ShortNeverMatches(1)

\* tokens i and i + 1 have the lone field pos and the same surface, are on
\* one line of one sentence, and the second starts where the first ends
LoneFieldPair(i, pos) ==
    /\ i + 1 <= Len(tokens)
    /\ \A k \in {i, i + 1} : Fields(k) = 1 /\ FieldIs(tokens[k], 1, <<pos>>)
    /\ tokens[i].surface = tokens[i + 1].surface
    /\ tokens[i].line = tokens[i + 1].line
    /\ TokenStartByte(tokens[i + 1]) = TokenEndByte(tokens[i])
    /\ \E s \in 1..Len(sentences) : StartsIn(i, sentences[s]) /\ StartsIn(i + 1, sentences[s])

\* C19, amended: check_grammar returns for every feature string; a token
\* with fewer than seven fields is not an adversative が, a れる suffix or a
\* special ra case, one with fewer than six is not an 一段 未然形 verb, and one
\* with an empty feature string is neither particle nor conjunction; but a
\* token whose only field is 助詞 or 接続詞 is matched, its key being that
\* field alone: two such equal tokens in a row raise the particle and the
\* conjunction diagnostics at a threshold of 1.
C19_TruncatedTokens ==
    Checked =>
        /\ LongFieldsRespected
        /\ ShortNeverMatches(0)
        /\ \A i \in 1..Len(tokens) :
              /\ (/\ LoneFieldPair(i, JOSHI)
                  /\ RuleOn(config.rules.duplicate_particle_surface,
                            config.rules.duplicate_particle_surface_max_repeat)
                  /\ config.rules.duplicate_particle_surface_max_repeat = 1)
                 => /\ RaisedAt("duplicate_particle_surface", i + 1) # {}
                    /\ RaisedAt("adjacent_particles", i + 1) # {}
              /\ (/\ LoneFieldPair(i, SETSUZOKUSHI)
                  /\ RuleOn(config.rules.conjunction_repeat,
                            config.rules.conjunction_repeat_max)
                  /\ config.rules.conjunction_repeat_max = 1)
                 => RaisedAt("conjunction_repeat", i + 1) # {}

\* two が of six fields (助詞, 接続助詞, no base form) in one sentence with
\* every rule on at a threshold of 1: no adversative_ga diagnostic, while the
\* particle rules, which read the first two fields, have raised theirs
C19_Witness ==
    /\ RuleOn(config.rules.adversative_ga, config.rules.adversative_ga_max)
    /\ config.rules.adversative_ga_max = 1
    /\ Len(sentences) = 1
    /\ Len(tokens) = 2
    /\ \A k \in 1..2 :
          /\ Fields(k) = 6
          /\ FieldIs(tokens[k], 1, <<JOSHI>>)
          /\ FieldIs(tokens[k], 2, <<SETSUZOKUJOSHI>>)
    /\ Of("adversative_ga") = <<>>
    /\ Of("duplicate_particle_surface") # <<>>

-----------------------------------------------------------------------------
(* Claims about documents in a language without comment extraction *)

\* the document's language id is outside LANGUAGE_MAP and extract_comments
\* has returned for it
UnsupportedExtracted ==
    /\ ~is_language_supported(language_id)
    /\ pc = "extract_comments" \/ (pc = "mask_text_except_comments" /\ segments = <<>>)

\* C18: for a language id outside the supported set extract_comments returns
\* the empty list, and mask_text_except_comments with that list returns the
\* text with every character but line feed and carriage return replaced by
\* a space.
C18_UnsupportedPassthrough ==
    /\ (~is_language_supported(language_id) /\ pc = "extract_comments")
           => segments = <<>>
    /\ (UnsupportedExtracted /\ pc = "mask_text_except_comments") =>
           /\ Len(masked) = Len(text)
           /\ \A k \in 1..Len(text) :
                 masked[k] = IF text[k] \in {LF, CR} THEN text[k] ELSE SP

\* an unsupported document holding a comment marker, a four-byte character
\* and a line break, masked with the empty list extract_comments gave
C18_Witness ==
    /\ UnsupportedExtracted
    /\ pc = "mask_text_except_comments"
    /\ \E j, k \in 1..Len(text) :
          /\ text[j] \in {"#", EMOJI}
          /\ masked[j] = SP
          /\ text[k] \in {LF, CR}
          /\ masked[k] = text[k]

-----------------------------------------------------------------------------
(* server.py: the document handlers and the analysis pass *)

MaxPublished == 2      \* most publishDiagnostics notifications followed

\* the uris documents are opened under
Uris == {"file:///a", "file:///b"}

\* the language ids documents are opened with: the analyzed text of both is
\* the document's text (_prepare_analysis_text masks the other languages)
ServerLanguages == {"japanese", "markdown"}

\* the word sequences the parser makes of the texts documents hold
ServerDocs == {<<>>, <<GaConjunctive, GaConjunctive>>}

\* self._nlp(text): the words of text
Parse(t) == CHOOSE words \in ServerDocs : TextOf(words) = t

\* AnalysisConfig(), the defaults of RuleToggles
DefaultConfig ==
    AnalysisConfig(TRUE, [RuleToggles(AllRules, 1) EXCEPT !.comma_limit_max = 3])

\* the analysis options a client sends with initialize
ServerConfigs ==
    {DefaultConfig, AnalysisConfig(FALSE, DefaultConfig.rules),
     [DefaultConfig EXCEPT !.warning_min_severity = ERROR]}

\* Analyzer.initialize: spacy.load succeeds exactly when the model is there,
\* and a failed load leaves _initialized as it was
initialize(was_initialized, installed) == was_initialized \/ installed

\* Analyzer.analyze_text(text) with its guards, _initialized being ready
AnalyzerTokens(ready, t) ==
    IF ~ready THEN <<>>
    ELSE IF t = <<>> THEN <<>>
    ELSE analyze_text(Parse(t))

\* Analyzer.get_sentences(text) with its guards; the parser finds one sentence
AnalyzerSentences(ready, t) ==
    IF ~ready THEN <<>>
    ELSE IF t = <<>> THEN <<>>
    ELSE get_sentences(Parse(t), Len(Parse(t)))

DocumentState(uri, t, lang) ==
    [uri |-> uri, text |-> t, language_id |-> lang, tokens |-> <<>>]

\* server.documents.get(uri), of the documents docs
IsOpen(docs, uri) == \E d \in docs : d.uri = uri
Document(docs, uri) == CHOOSE d \in docs : d.uri = uri

\* _prepare_analysis_text, comment_segments and ranges being what the
\* extractors return for the text: html and latex keep the content ranges
\* and the bytes of the comments, the other languages of LANGUAGE_MAP keep
\* the sanitized comments, japanese and unsupported ids are not masked
_prepare_analysis_text(lang, t, comment_segments, ranges) ==
    IF lang = "japanese" THEN t
    ELSE IF lang \in {"html", "latex"}
    THEN mask_text_except_content(lang, t, ranges \o AsByteRanges(comment_segments))
    ELSE IF is_language_supported(lang)
    THEN mask_text_except_comments(lang, t, comment_segments)
    ELSE t

\* the lsp.Diagnostic list made of the checker's diagnostics
LspDiagnostics(ds) ==
    [k \in 1..Len(ds) |->
        [range |-> ds[k].range, severity |-> ds[k].severity,
         message |-> ds[k].message, source |-> "mozuku"]]

\* _analyze_and_publish(uri, text) with the documents docs: the analyzer's
\* flag, the documents and the notifications it leaves
AnalyzeAndPublish(uri, t, docs) ==
    LET ready == IF initialized THEN TRUE ELSE initialize(initialized, model_installed)
    IN  IF ~ready
        THEN [initialized |-> FALSE, documents |-> docs, published |-> published]
        ELSE IF ~IsOpen(docs, uri)
        THEN [initialized |-> TRUE, documents |-> docs, published |-> published]
        ELSE LET doc == Document(docs, uri)
                 analysis_text == _prepare_analysis_text(doc.language_id, t, <<>>, <<>>)
                 toks == AnalyzerTokens(TRUE, analysis_text)
                 sents == AnalyzerSentences(TRUE, analysis_text)
                 diags == check_grammar(config, analysis_text, toks, sents)
             IN  [initialized |-> TRUE,
                  documents |-> (docs \ {doc}) \cup {[doc EXCEPT !.tokens = toks]},
                  published |-> Append(published,
                      [uri |-> uri, diagnostics |-> LspDiagnostics(diags)])]

InitServer ==
    /\ initialized = FALSE
    /\ model_installed \in BOOLEAN
    /\ published = <<>>
    /\ documents = {}
    /\ content_ranges = <<>>
    /\ _cache = <<>>
    /\ now = 0
    /\ fetches = <<>>
    /\ calls = 0
    /\ config = DefaultConfig
    /\ text = <<>>
    /\ language_id = "japanese"
    /\ tokens = <<>>
    /\ sentences = <<>>
    /\ diagnostics = <<>>
    /\ MaskIdle
    /\ SanitizeIdle
    /\ OffsetIdle
    /\ pc = "start"

otherVars == <<segments, masked, comment_text, sanitized, resanitized,
               position, byte_offset, converted, round_trip, content_ranges,
               wikiVars>>

\* the variables the handlers leave alone
directVars == <<text, language_id, tokens, sentences, diagnostics>>

\* on_initialize with the analysis options cfg
OnInitialize ==
    /\ pc = "start"
    /\ \E cfg \in ServerConfigs : config' = cfg
    /\ initialized' = initialize(initialized, model_installed)
    /\ pc' = "on_initialize"
    /\ UNCHANGED <<model_installed, published, documents, directVars, otherVars>>

\* the state an analysis pass over docs leaves
Passed(uri, t, docs) ==
    LET after == AnalyzeAndPublish(uri, t, docs)
    IN  /\ initialized' = after.initialized
        /\ documents' = after.documents
        /\ published' = after.published

OnDidOpen ==
    /\ pc # "start"
    /\ Len(published) < MaxPublished
    /\ \E uri \in Uris : \E words \in ServerDocs : \E lang \in ServerLanguages :
          LET doc == DocumentState(uri, TextOf(words), lang)
              docs == {d \in documents : d.uri # uri} \cup {doc}
          IN  Passed(uri, doc.text, docs)
    /\ pc' = "on_did_open"
    /\ UNCHANGED <<model_installed, config, directVars, otherVars>>

\* on_did_change with one full-text change
OnDidChange ==
    /\ pc # "start"
    /\ Len(published) < MaxPublished
    /\ \E uri \in Uris : \E words \in ServerDocs :
          IF ~IsOpen(documents, uri)
          THEN UNCHANGED <<initialized, documents, published>>
          ELSE LET doc == Document(documents, uri)
                   docs == (documents \ {doc}) \cup {[doc EXCEPT !.text = TextOf(words)]}
               IN  Passed(uri, TextOf(words), docs)
    /\ pc' = "on_did_change"
    /\ UNCHANGED <<model_installed, config, directVars, otherVars>>

OnDidSave ==
    /\ pc # "start"
    /\ Len(published) < MaxPublished
    /\ \E uri \in Uris :
          IF ~IsOpen(documents, uri)
          THEN UNCHANGED <<initialized, documents, published>>
          ELSE Passed(uri, Document(documents, uri).text, documents)
    /\ pc' = "on_did_save"
    /\ UNCHANGED <<model_installed, config, directVars, otherVars>>

OnDidClose ==
    /\ pc # "start"
    /\ \E uri \in Uris : documents' = {d \in documents : d.uri # uri}
    /\ pc' = "on_did_close"
    /\ UNCHANGED <<initialized, model_installed, published, config, directVars, otherVars>>

\* The model is installed while the server runs: spacy.load finds it from
\* now on.
InstallModel ==
    /\ ~model_installed
    /\ model_installed' = TRUE
    /\ UNCHANGED <<initialized, published, documents, config, directVars, otherVars, pc>>

\* A caller asks the analyzer for the tokens and the sentences of a text.
AnalyzeText ==
    /\ pc # "start"
    /\ \E words \in ServerDocs :
          /\ text' = TextOf(words)
          /\ tokens' = AnalyzerTokens(initialized, TextOf(words))
          /\ sentences' = AnalyzerSentences(initialized, TextOf(words))
    /\ pc' = "analyze_text"
    /\ UNCHANGED <<language_id, diagnostics, config, serverVars, otherVars>>

NextServer ==
    \/ OnInitialize
    \/ OnDidOpen
    \/ OnDidChange
    \/ OnDidSave
    \/ OnDidClose
    \/ InstallModel
    \/ AnalyzeText

SpecServer == InitServer /\ [][NextServer]_vars

-----------------------------------------------------------------------------
(* Claims about the analyzer being unavailable *)

\* analyze_text and get_sentences return empty lists while the analyzer is
\* not initialized
EmptyWhenUnavailable ==
    (pc = "analyze_text" /\ ~initialized) => tokens = <<>> /\ sentences = <<>>

\* a notification of zero diagnostics has been sent for uri
ReportedNone(uri) ==
    \E n \in 1..Len(published) :
        published[n].uri = uri /\ published[n].diagnostics = <<>>

\* C20: while the analyzer is not initialized, analyze_text and
\* get_sentences return empty lists, and every open document, whose analysis
\* passes have all run without the analyzer, has had zero diagnostics
\* reported for it.
C20_UnavailableAnalyzer ==
    /\ EmptyWhenUnavailable
    /\ ~initialized => \A d \in documents : ReportedNone(d.uri)

-----------------------------------------------------------------------------
(* Claims about the streaks of the particle and conjunction rules *)

\* tokens k - 1 and k are particles of one (POS, sub1) key that start in the
\* sentence, and k starts at the byte where k - 1 ends
ContinuesRun(k, sentence) ==
    /\ k > 1
    /\ StartsIn(k - 1, sentence)
    /\ StartsIn(k, sentence)
    /\ ParticlePair(k - 1)
    /\ TokenStartByte(tokens[k]) = TokenEndByte(tokens[k - 1])

RECURSIVE AdjacentRun(_, _)
\* the length of the run of byte-adjacent same-key particles of the sentence
\* that token k ends: a particle that does not continue a run starts one
AdjacentRun(k, sentence) ==
    IF ~ParticleIn(k, sentence) THEN 0
    ELSE IF ContinuesRun(k, sentence) THEN AdjacentRun(k - 1, sentence) + 1
    ELSE 1

\* C24: with adjacent_particles on and max_repeat at least 1, a diagnostic
\* is raised at a token only if the token ends a run of more than max_repeat
\* same-key particles of a sentence in which each starts at the byte where
\* the one before ends.
C24_ContiguousRuns ==
    RuleOn(config.rules.adjacent_particles, config.rules.adjacent_particles_max_repeat) =>
        \A k \in 1..Len(tokens) :
            RaisedAt("adjacent_particles", k) # {} =>
                \E s \in 1..Len(sentences) :
                    AdjacentRun(k, sentences[s]) > config.rules.adjacent_particles_max_repeat


RECURSIVE StreakFirst(_)
\* the first conjunction token of the streak the conjunction token k is in
StreakFirst(k) ==
    IF ConjunctionsBefore(k) = {} THEN k
    ELSE LET i == PreviousConjunction(k)
         IN  IF tokens[i].surface = tokens[k].surface /\ ~NewlineBetween(i, k)
             THEN StreakFirst(i)
             ELSE k

\* C25: with conjunction_repeat on and max_repeat at least 1, every
\* diagnostic raised at a conjunction token starts at the start of the first
\* conjunction token of that token's streak and ends at the token's end.
C25_RangeFromFirst ==
    RuleOn(config.rules.conjunction_repeat, config.rules.conjunction_repeat_max) =>
        \A k \in 1..Len(tokens) :
            IsConjunctionToken(k) =>
                \A n \in RaisedAt("conjunction_repeat", k) :
                    Of("conjunction_repeat")[n].range
                        = [start |-> StartOf(StreakFirst(k)), end |-> EndOf(k)]


\* the rules whose streak is kept per sentence, and their thresholds
SentenceScopedRules == {"duplicate_particle_surface", "adjacent_particles"}

MaxRepeatOf(rule) ==
    IF rule = "duplicate_particle_surface"
    THEN config.rules.duplicate_particle_surface_max_repeat
    ELSE config.rules.adjacent_particles_max_repeat

\* the particles of the sentence up to token k
ParticlesUpTo(k, sentence) == {i \in 1..k : ParticleIn(i, sentence)}

\* C26: no token starts in two sentences, and a diagnostic of
\* duplicate_particle_surface or adjacent_particles raised at a token rests
\* on the particles of that token's sentence only: the sentence holds more
\* than max_repeat particles up to the token, and the diagnostic starts at a
\* particle of that sentence.
C26_StreaksStayInSentence ==
    Checked =>
        /\ \A k \in 1..Len(tokens) :
              Cardinality({s \in 1..Len(sentences) : StartsIn(k, sentences[s])}) <= 1
        /\ \A rule \in SentenceScopedRules : \A k \in 1..Len(tokens) :
              \A n \in RaisedAt(rule, k) :
                  \E s \in 1..Len(sentences) :
                      /\ StartsIn(k, sentences[s])
                      /\ Cardinality(ParticlesUpTo(k, sentences[s])) > MaxRepeatOf(rule)
                      /\ \E i \in ParticlesUpTo(k, sentences[s]) :
                            Of(rule)[n].range.start = StartOf(i)

\* が | が が on one line, the bar being the sentence boundary, with both
\* rules on at max_repeat = 1: nothing is raised at the second が, and the
\* third raises one diagnostic of each rule, from the second
C26_Witness ==
    /\ \A rule \in SentenceScopedRules : MaxRepeatOf(rule) = 1
    /\ RuleOn(config.rules.duplicate_particle_surface, 1)
    /\ RuleOn(config.rules.adjacent_particles, 1)
    /\ Len(sentences) = 2
    /\ Len(tokens) = 3
    /\ StartsIn(1, sentences[1])
    /\ StartsIn(2, sentences[2])
    /\ StartsIn(3, sentences[2])
    /\ SameParticle(1, 2) /\ SameParticle(2, 3)
    /\ tokens[1].line = tokens[3].line
    /\ TokenStartByte(tokens[2]) = TokenEndByte(tokens[1])
    /\ \A rule \in SentenceScopedRules :
          /\ RaisedAt(rule, 2) = {}
          /\ Len(Of(rule)) = 1
          /\ Of(rule)[1].range = [start |-> StartOf(2), end |-> EndOf(3)]


\* the rules that have a threshold
ThresholdedRules ==
    {"comma_limit", "adversative_ga", "duplicate_particle_surface",
     "adjacent_particles", "conjunction_repeat"}

\* the threshold of a rule in the configuration
ThresholdOf(rule) ==
    CASE rule = "comma_limit" -> config.rules.comma_limit_max
      [] rule = "adversative_ga" -> config.rules.adversative_ga_max
      [] rule = "duplicate_particle_surface" ->
           config.rules.duplicate_particle_surface_max_repeat
      [] rule = "adjacent_particles" -> config.rules.adjacent_particles_max_repeat
      [] rule = "conjunction_repeat" -> config.rules.conjunction_repeat_max

\* C27: a rule that is switched on but whose threshold is zero or less
\* emits no diagnostic, whatever the tokens and sentences.
C27_NonPositiveThresholdDisables ==
    Checked =>
        \A rule \in ThresholdedRules :
            (FlagOf(config.rules, rule) /\ ThresholdOf(rule) <= 0) => Of(rule) = <<>>

\* every rule on with thresholds below zero, a sentence with a comma and
\* two equal adjacent particles in one sentence: only ra_dropping, which
\* has no threshold, may have reported
C27_Witness ==
    /\ Checked
    /\ config.grammar_check
    /\ \A rule \in ThresholdedRules : FlagOf(config.rules, rule) /\ ThresholdOf(rule) < 0
    /\ \E s \in 1..Len(sentences) : _count_commas(sentences[s].text) > 0
    /\ \A d \in {diagnostics[n] : n \in 1..Len(diagnostics)} : d.message[1] = "ra_dropping"

\* the same thresholds over two equal particles that touch
C27_WitnessParticles ==
    /\ Checked
    /\ config.grammar_check
    /\ \A rule \in ThresholdedRules : FlagOf(config.rules, rule) /\ ThresholdOf(rule) < 0
    /\ \E i \in 1..Len(tokens) :
          /\ ParticlePair(i)
          /\ SameParticle(i, i + 1)
          /\ TokenStartByte(tokens[i + 1]) = TokenEndByte(tokens[i])
    /\ diagnostics = <<>>


-----------------------------------------------------------------------------
(* Claims about what an analysis pass publishes *)

\* the diagnostics of every notification sent so far
PublishedDiagnostics ==
    UNION {{published[n].diagnostics[k] : k \in 1..Len(published[n].diagnostics)} :
              n \in 1..Len(published)}

\* C21: no published diagnostic is less severe than the configured
\* warning_min_severity (a greater number is a lesser severity: 1 is error,
\* 2 warning, 3 information, 4 hint).
C21_SeverityFilter ==
    \A d \in PublishedDiagnostics : d.severity <= config.warning_min_severity


-----------------------------------------------------------------------------
(* Claims about positions outside the text *)

\* C28: for every text and every Position, a line at or past the number of
\* lines and a character past the end of the line included,
\* server._position_to_offset returns a character offset from 0 to len(text).
C28_OffsetWithinBuffer ==
    pc = "position_round_trip" => (0 <= converted /\ converted <= Len(text))


-----------------------------------------------------------------------------
(* Preparing the analysis text of a LaTeX document: the inputs and the call *)

MaxLatex == 4          \* longest LaTeX text, in characters

\* the characters a LaTeX text is drawn from: the comment and math markers,
\* the backslash, a letter, a three-byte character and the line feed
LatexAlphabet == {"%", "$", "\\", "{", "a", JA, LF}

InitLatex ==
    /\ text \in Strings(LatexAlphabet, MaxLatex)
    /\ language_id = "latex"
    /\ MaskIdle
    /\ SanitizeIdle
    /\ OffsetIdle
    /\ GrammarIdle
    /\ ServerIdle
    /\ pc = "document"

\* _prepare_analysis_text on a latex document: the comment segments and
\* content ranges stored in the DocumentState, and the text returned
PrepareAnalysisText ==
    /\ pc = "document"
    /\ segments' = _extract_latex_comments(text)
    /\ content_ranges' = extract_latex_content_ranges(text)
    /\ masked' = _prepare_analysis_text(language_id, text, segments', content_ranges')
    /\ pc' = "_prepare_analysis_text"
    /\ UNCHANGED <<text, language_id, comment_text, sanitized, resanitized,
                   position, byte_offset, converted, round_trip>>
    /\ UNCHANGED <<grammarVars, initialized, model_installed, published, documents, wikiVars>>

NextLatex == PrepareAnalysisText

SpecLatex == InitLatex /\ [][NextLatex]_vars

Prepared == pc = "_prepare_analysis_text"

\* C29: no byte of a LaTeX text belongs both to a content range of
\* extract_latex_content_ranges and to a comment segment of
\* _extract_latex_comments.
C29_ContentAndCommentsDisjoint ==
    Prepared =>
        \A r \in 1..Len(content_ranges) : \A c \in 1..Len(segments) :
            \/ content_ranges[r].end_byte <= segments[c].start_byte
            \/ segments[c].end_byte <= content_ranges[r].start_byte

\* C23: in the analysis text every comment segment stands in its sanitized
\* form: the marker that opens it is a space, and each character of the
\* segment is the character of the sanitized comment.
C23_CommentsSanitized ==
    Prepared =>
        \A c \in 1..Len(segments) :
            LET start_char == ByteToChar(text, segments[c].start_byte)
            IN  /\ masked[start_char + 1] = SP
                /\ \A j \in 1..Len(segments[c].sanitized) :
                      masked[start_char + j] = segments[c].sanitized[j]


-----------------------------------------------------------------------------
(* Editor coordinates of the characters a mask keeps *)

\* the Position the analyzer gives the character at index k (1-based) of t
PositionOf(t, k) == _char_offset_to_position(t, _compute_line_starts(t), k - 1)

\* C22: with segments as the extractors make them, every character a mask
\* keeps has the same (line, UTF-16 column) Position in the masked text as in
\* the document, whatever characters the masked-out parts hold.
C22_PositionsKept ==
    (Masked /\ FromExtraction /\ AllOnBoundaries) =>
        \A k \in 1..Len(text) :
            Covered(ByteOffsetOf(text, k)) =>
                PositionOf(masked, k) = PositionOf(text, k)


-----------------------------------------------------------------------------
(* wikipedia.py: the summary cache and its background fetches *)

MAX_CACHE_SIZE == 100
CACHE_TTL_SECONDS == 900

MaxThreads == 2        \* background threads prefetch_summary may start
MaxTicks == 1          \* times the clock advances
MaxCalls == 1          \* cache_entry calls of the main thread

Threads == 1..MaxThreads

\* the cache after n distinct queries were cached one second apart
Filled(n) ==
    [k \in 1..n |-> [key |-> k, content |-> "extract", response_code |-> 200,
                     timestamp |-> k]]

\* the fill levels a run starts from
Fills == {MAX_CACHE_SIZE - 1, MAX_CACHE_SIZE}

\* the queries looked up: the first one cached and new ones
Queries == {1, MAX_CACHE_SIZE + 1, MAX_CACHE_SIZE + 2}

\* the HTTP status codes a fetch ends with
StatusCodes == {200, 404}

None == [key |-> 0]

\* the position of query in the dict, 0 if it has no entry
IndexOf(cache, query) ==
    IF \E k \in 1..Len(cache) : cache[k].key = query
    THEN CHOOSE k \in 1..Len(cache) : cache[k].key = query
    ELSE 0

Remove(cache, k) == SubSeq(cache, 1, k - 1) \o SubSeq(cache, k + 1, Len(cache))

\* get_cached_entry at time `time`: the entry returned and the cache left
get_cached_entry(cache, query, time) ==
    LET k == IndexOf(cache, query)
    IN  IF k = 0 THEN [entry |-> None, cache |-> cache]
        ELSE IF time - cache[k].timestamp > CACHE_TTL_SECONDS
        THEN [entry |-> None, cache |-> Remove(cache, k)]
        ELSE [entry |-> cache[k], cache |-> cache]

\* `len(_cache) >= MAX_CACHE_SIZE`
IsFull(cache) == Len(cache) >= MAX_CACHE_SIZE

\* min(_cache.keys(), key=timestamp): the first key, in dict order, of the
\* smallest timestamp
OldestIndex(cache) ==
    CHOOSE k \in 1..Len(cache) :
        /\ \A j \in 1..Len(cache) : cache[k].timestamp <= cache[j].timestamp
        /\ \A j \in 1..(k - 1) : cache[j].timestamp > cache[k].timestamp

\* `del _cache[oldest_key]`
EvictOldest(cache) == Remove(cache, OldestIndex(cache))

\* `_cache[query] = CacheEntry(...)`: an existing key keeps its place
Store(cache, query, content, response_code, time) ==
    LET entry == [key |-> query, content |-> content,
                  response_code |-> response_code, timestamp |-> time]
        k == IndexOf(cache, query)
    IN  IF k = 0 THEN Append(cache, entry) ELSE [cache EXCEPT ![k] = entry]

\* cache_entry run without interruption
cache_entry(cache, query, content, response_code, time) ==
    Store(IF IsFull(cache) THEN EvictOldest(cache) ELSE cache,
          query, content, response_code, time)

\* what a fetch caches for a status code
ContentOf(status_code) == IF status_code = 200 THEN "extract" ELSE "message"

NotStarted == [pc |-> "start", query |-> 0, response_code |-> 0]

\* how many times the clock has advanced
TicksOf(time) == (time - MAX_CACHE_SIZE) \div CACHE_TTL_SECONDS

InitWiki ==
    /\ \E n \in Fills : _cache = Filled(n)
    /\ now = MAX_CACHE_SIZE
    /\ fetches = [t \in Threads |-> NotStarted]
    /\ calls = 0
    /\ initialized = FALSE
    /\ model_installed = FALSE
    /\ published = <<>>
    /\ documents = {}
    /\ content_ranges = <<>>
    /\ text = <<>>
    /\ language_id = "japanese"
    /\ MaskIdle
    /\ SanitizeIdle
    /\ OffsetIdle
    /\ GrammarIdle
    /\ pc = "wikipedia"

restVars == <<text, language_id, segments, masked, comment_text, sanitized,
              resanitized, position, byte_offset, converted, round_trip, pc,
              grammarVars, initialized, model_installed, published, documents,
              content_ranges>>

\* time passes: the time to live of an entry
Tick ==
    /\ pc = "wikipedia"
    /\ TicksOf(now) < MaxTicks
    /\ now' = now + CACHE_TTL_SECONDS
    /\ UNCHANGED <<_cache, fetches, calls, restVars>>

\* a call of get_cached_entry(query) on the main thread
GetCachedEntry ==
    /\ pc = "wikipedia"
    /\ \E query \in Queries : _cache' = get_cached_entry(_cache, query, now).cache
    /\ UNCHANGED <<now, fetches, calls, restVars>>

\* a call of cache_entry(query, content, response_code) on the main thread
CacheEntry ==
    /\ pc = "wikipedia"
    /\ calls < MaxCalls
    /\ calls' = calls + 1
    /\ \E query \in Queries : \E code \in StatusCodes :
          _cache' = cache_entry(_cache, query, ContentOf(code), code, now)
    /\ UNCHANGED <<now, fetches, restVars>>

\* prefetch_summary(query) with no event loop running: returns if the query
\* is cached, else starts a thread on fetch_summary_sync
PrefetchSummary ==
    /\ pc = "wikipedia"
    /\ \E t \in Threads : \E query \in Queries :
          LET got == get_cached_entry(_cache, query, now)
          IN  /\ fetches[t].pc = "start"
              /\ \A u \in 1..(t - 1) : fetches[u].pc # "start"
              /\ _cache' = got.cache
              /\ fetches' =
                    IF got.entry # None THEN fetches
                    ELSE [fetches EXCEPT ![t] =
                            [pc |-> "fetch_summary_sync", query |-> query,
                             response_code |-> 0]]
    /\ UNCHANGED <<now, calls, restVars>>

\* fetch_summary_sync, up to the request: returns the cached entry if any
FetchCheckCache(t) ==
    /\ fetches[t].pc = "fetch_summary_sync"
    /\ LET got == get_cached_entry(_cache, fetches[t].query, now)
       IN  /\ _cache' = got.cache
           /\ fetches' = [fetches EXCEPT ![t].pc =
                            IF got.entry # None THEN "return" ELSE "client.get"]
    /\ UNCHANGED <<now, calls, restVars>>

\* the response arrives, or the request times out
FetchRespond(t) ==
    /\ fetches[t].pc = "client.get"
    /\ \E code \in StatusCodes :
          fetches' = [fetches EXCEPT ![t].pc = "cache_entry",
                                     ![t].response_code = code]
    /\ UNCHANGED <<_cache, now, calls, restVars>>

\* cache_entry in the thread: the test `len(_cache) >= MAX_CACHE_SIZE`
FetchTestFull(t) ==
    /\ fetches[t].pc = "cache_entry"
    /\ fetches' = [fetches EXCEPT ![t].pc = IF IsFull(_cache) THEN "del" ELSE "store"]
    /\ UNCHANGED <<_cache, now, calls, restVars>>

\* cache_entry in the thread: the oldest entry is deleted
FetchEvict(t) ==
    /\ fetches[t].pc = "del"
    /\ _cache # <<>>
    /\ _cache' = EvictOldest(_cache)
    /\ fetches' = [fetches EXCEPT ![t].pc = "store"]
    /\ UNCHANGED <<now, calls, restVars>>

\* cache_entry in the thread: the entry is stored, and the fetch returns
FetchStore(t) ==
    /\ fetches[t].pc = "store"
    /\ _cache' = Store(_cache, fetches[t].query, ContentOf(fetches[t].response_code),
                       fetches[t].response_code, now)
    /\ fetches' = [fetches EXCEPT ![t].pc = "return"]
    /\ UNCHANGED <<now, calls, restVars>>

NextWiki ==
    \/ Tick
    \/ GetCachedEntry
    \/ CacheEntry
    \/ PrefetchSummary
    \/ \E t \in Threads : FetchCheckCache(t)
    \/ \E t \in Threads : FetchRespond(t)
    \/ \E t \in Threads : FetchTestFull(t)
    \/ \E t \in Threads : FetchEvict(t)
    \/ \E t \in Threads : FetchStore(t)

SpecWiki == InitWiki /\ [][NextWiki]_vars

\* C30: whatever the calls of cache_entry and get_cached_entry and however
\* the background fetches interleave, the cache holds at most MAX_CACHE_SIZE
\* entries.
C30_CacheBounded == pc = "wikipedia" => Len(_cache) <= MAX_CACHE_SIZE

=============================================================================
